---- MODULE Spec2Model ----
(***************************************************************************)
(* A model of the CSV-to-XML conversion utility: the field cleaners        *)
(* (data_cleaning.py), the issue tracker (validation_report.py), the       *)
(* record validators (data_validation.py), the counseling and training     *)
(* converters (converters/*.py) and the post-hoc XML fixer                 *)
(* (xml-validator.py).                                                     *)
(*                                                                         *)
(* Python strings are TLA+ strings; a character is a string of length 1.   *)
(* A CSV row is a function from column names to cells; a cell is a string, *)
(* or Absent when the header has no such column (dict.get then yields its  *)
(* default).  An XML element is a record [tag, text, kids].                *)
(***************************************************************************)
EXTENDS Integers, Sequences, FiniteSets, TLC

\* ------------------------------------------------------------------------
\* Python string primitives
\* ------------------------------------------------------------------------

\* a local variable: v is computed once and named in F
With(v, F(_)) == F(v)

Char(s, i) == SubSeq(s, i, i)

IsSpace(c) == c \in {" ", "\t", "\n", "\r"}

IsDigit(c) == c \in {"0", "1", "2", "3", "4", "5", "6", "7", "8", "9"}

DigitVal(c) ==
    CASE c = "0" -> 0 [] c = "1" -> 1 [] c = "2" -> 2 [] c = "3" -> 3
      [] c = "4" -> 4 [] c = "5" -> 5 [] c = "6" -> 6 [] c = "7" -> 7
      [] c = "8" -> 8 [] c = "9" -> 9

DigitChar(n) ==
    CASE n = 0 -> "0" [] n = 1 -> "1" [] n = 2 -> "2" [] n = 3 -> "3"
      [] n = 4 -> "4" [] n = 5 -> "5" [] n = 6 -> "6" [] n = 7 -> "7"
      [] n = 8 -> "8" [] n = 9 -> "9"

UpperLetters == <<"A","B","C","D","E","F","G","H","I","J","K","L","M",
                  "N","O","P","Q","R","S","T","U","V","W","X","Y","Z">>

LowerLetters == <<"a","b","c","d","e","f","g","h","i","j","k","l","m",
                  "n","o","p","q","r","s","t","u","v","w","x","y","z">>

\* str.lower() on one character
LowerChar(c) ==
    IF \E i \in 1..26 : UpperLetters[i] = c
    THEN LowerLetters[CHOOSE i \in 1..26 : UpperLetters[i] = c]
    ELSE c

\* str.upper() on one character
UpperChar(c) ==
    IF \E i \in 1..26 : LowerLetters[i] = c
    THEN UpperLetters[CHOOSE i \in 1..26 : LowerLetters[i] = c]
    ELSE c

RECURSIVE Lower(_)
Lower(s) == IF s = "" THEN "" ELSE LowerChar(Char(s, 1)) \o Lower(SubSeq(s, 2, Len(s)))

RECURSIVE Upper(_)
Upper(s) == IF s = "" THEN "" ELSE UpperChar(Char(s, 1)) \o Upper(SubSeq(s, 2, Len(s)))

RECURSIVE LStrip(_)
LStrip(s) == IF s # "" /\ IsSpace(Char(s, 1)) THEN LStrip(SubSeq(s, 2, Len(s))) ELSE s

RECURSIVE RStrip(_)
RStrip(s) == IF s # "" /\ IsSpace(Char(s, Len(s))) THEN RStrip(SubSeq(s, 1, Len(s) - 1)) ELSE s

\* str.strip()
Strip(s) == RStrip(LStrip(s))

\* sub in s
Contains(s, sub) ==
    \E i \in 1..(Len(s) - Len(sub) + 1) : SubSeq(s, i, i + Len(sub) - 1) = sub

\* s.find(c), 1-based; 0 when absent (c is one character)
Find(s, c) ==
    IF \E i \in 1..Len(s) : Char(s, i) = c
    THEN CHOOSE i \in 1..Len(s) : Char(s, i) = c /\ \A j \in 1..(i - 1) : Char(s, j) # c
    ELSE 0

\* s.split(delimiter) for a one-character delimiter
RECURSIVE Split(_, _)
Split(s, d) ==
    LET p == Find(s, d)
    IN  IF p = 0 THEN <<s>>
        ELSE <<SubSeq(s, 1, p - 1)>> \o Split(SubSeq(s, p + 1, Len(s)), d)

AllDigits(s) == \A i \in 1..Len(s) : IsDigit(Char(s, i))

RECURSIVE NatOf(_)
NatOf(s) == IF s = "" THEN 0 ELSE 10 * NatOf(SubSeq(s, 1, Len(s) - 1)) + DigitVal(Char(s, Len(s)))

RECURSIVE StrOfNat(_)
StrOfNat(n) == IF n < 10 THEN DigitChar(n) ELSE StrOfNat(n \div 10) \o DigitChar(n % 10)

\* the sentinel of a column the CSV header does not have
Absent == "<absent>"

\* row.get(col, default)
RowGet(row, col, default) == IF row[col] = Absent THEN default ELSE row[col]

\* Python truthiness of row.get(col) (None when absent)
Truthy(v) == v # Absent /\ v # ""

\* the common guard of the cleaners:
\* not value or str(value).strip() == "" or str(value).lower() == "nan"
IsBlank(value) == value = "" \/ Strip(value) = "" \/ Lower(value) = "nan"

\* ------------------------------------------------------------------------
\* Configuration (config.py)
\* ------------------------------------------------------------------------

DEFAULT_LOCATION_CODE == "249003"
DEFAULT_LANGUAGE == "English"
DEFAULT_BUSINESS_STATUS == "No"
REQUIRED_FIELD == "Contact ID"
\* a default that is not one of the valid session types
DEFAULT_SESSION_TYPE_unlisted == "Phone"
DEFAULT_SESSION_TYPE == "Telephone"
DEFAULT_URBAN_RURAL == "Undetermined"
MIN_COUNSELING_DATE == "2023-10-01"
NO_CONTACT_HOUR_SESSION_TYPES == {"Prepare Only", "Training", "Update Only"}
VALID_SESSION_TYPES ==
    {"Face-to-face", "Online", "Prepare Only", "Telephone", "Training", "Update Only"}
MaxCounselorNotes == 1000
EVENT_ID_COLUMN == "Class/Event ID"

\* ValidationCategory
MISSING_REQUIRED == "missing_required_field"
MISSING_FIELD == "missing_field"
INVALID_FORMAT == "invalid_format"
INVALID_VALUE == "invalid_value"
INVALID_DATE == "invalid_date"
TRUNCATED_VALUE == "truncated_value"
STANDARDIZED_VALUE == "standardized_value"
PROCESSING_ERROR == "processing_error"
FILE_ACCESS == "file_access"
FILE_WRITE == "file_write"

\* ------------------------------------------------------------------------
\* Field cleaners (data_cleaning.py)
\* ------------------------------------------------------------------------

NotANumber == [ok |-> FALSE, neg |-> FALSE, ip |-> 0, fd |-> "", sp |-> ""]

RECURSIVE RStripZeros(_)
RStripZeros(s) ==
    IF s # "" /\ Char(s, Len(s)) = "0" THEN RStripZeros(SubSeq(s, 1, Len(s) - 1)) ELSE s

\* float(value): optional surrounding whitespace, optional sign, then either
\* digits with at most one point (at least one digit) or one of the words
\* nan, inf, infinity in any case (sp).  ok is FALSE where float() raises
\* ValueError.  (Exponents and digit underscores are outside the inputs the
\* model draws.)
ParseFloat(value) ==
    With(Strip(value), LAMBDA t :
    With(t # "" /\ Char(t, 1) \in {"+", "-"}, LAMBDA sgn :
    With(IF sgn THEN SubSeq(t, 2, Len(t)) ELSE t, LAMBDA body :
    With(Find(body, "."), LAMBDA p :
    With([ipart |-> IF p = 0 THEN body ELSE SubSeq(body, 1, p - 1),
          fpart |-> IF p = 0 THEN "" ELSE SubSeq(body, p + 1, Len(body)),
          neg |-> sgn /\ Char(t, 1) = "-"], LAMBDA f :
      IF AllDigits(f.ipart) /\ AllDigits(f.fpart) /\ Len(f.ipart) + Len(f.fpart) > 0
      THEN [ok |-> TRUE, neg |-> f.neg, ip |-> NatOf(f.ipart), fd |-> RStripZeros(f.fpart),
            sp |-> ""]
      ELSE IF Lower(body) \in {"nan", "inf", "infinity"}
      THEN [ok |-> TRUE, neg |-> f.neg, ip |-> 0, fd |-> "",
            sp |-> IF Lower(body) = "nan" THEN "nan" ELSE "inf"]
      ELSE NotANumber)))))

NumIsZero(n) == n.sp = "" /\ n.ip = 0 /\ n.fd = ""

\* float.is_integer()
NumIsInteger(n) == n.sp = "" /\ n.fd = ""

\* str(float_val)
FloatStr(n) ==
    IF n.sp = "nan" THEN "nan"
    ELSE IF n.sp = "inf" THEN (IF n.neg THEN "-inf" ELSE "inf")
    ELSE (IF n.neg THEN "-" ELSE "") \o StrOfNat(n.ip) \o "."
         \o (IF n.fd = "" THEN "0" ELSE n.fd)

\* str(int(float_val))
IntStr(n) == (IF n.neg /\ n.ip # 0 THEN "-" ELSE "") \o StrOfNat(n.ip)

clean_phone_number(phone) ==
    LET RECURSIVE Digits(_)
        Digits(s) == IF s = "" THEN ""
                     ELSE (IF IsDigit(Char(s, 1)) THEN Char(s, 1) ELSE "")
                          \o Digits(SubSeq(s, 2, Len(s)))
    IN  IF IsBlank(phone) THEN "" ELSE Digits(phone)

clean_numeric(value) ==
    IF IsBlank(value) THEN ""
    ELSE With(ParseFloat(value), LAMBDA n :
           IF ~n.ok THEN ""
           ELSE IF NumIsInteger(n) THEN IntStr(n) ELSE FloatStr(n))

\* float(contact_val or 0) <= 0, for contact_val a result of clean_numeric
NonPositive(contact_val) ==
    IF contact_val = "" THEN TRUE
    ELSE With(ParseFloat(contact_val), LAMBDA n : n.sp # "nan" /\ (n.neg \/ NumIsZero(n)))

\* clean_percentage: [raised, val]; max(0, min(100, float_val)) yields the
\* int 0 or 100 at and beyond the limits, the float itself strictly inside.
clean_percentage(value) ==
    IF IsBlank(value) THEN [raised |-> FALSE, val |-> "0"]
    ELSE With(ParseFloat(value), LAMBDA n :
           IF ~n.ok THEN [raised |-> TRUE, val |-> ""]
           ELSE IF n.sp = "nan" \/ (~n.neg /\ (n.sp = "inf" \/ n.ip >= 100))
                THEN [raised |-> FALSE, val |-> "100"]
           ELSE IF n.neg \/ NumIsZero(n) THEN [raised |-> FALSE, val |-> "0"]
           ELSE [raised |-> FALSE, val |-> FloatStr(n)])

\* split_multi_value without the filter on empty items
split_multi_value_unfiltered(value) ==
    IF IsBlank(value) THEN <<>>
    ELSE [i \in 1..Len(Split(value, ";")) |-> Strip(Split(value, ";")[i])]

split_multi_value(value) ==
    IF IsBlank(value) THEN <<>>
    ELSE LET parts == Split(value, ";")
             RECURSIVE Keep(_)
             Keep(ps) == IF ps = <<>> THEN <<>>
                         ELSE (IF Strip(ps[1]) # "" THEN <<Strip(ps[1])>> ELSE <<>>)
                              \o Keep(Tail(ps))
         IN  Keep(parts)

map_gender_to_sex(gender_value) ==
    IF IsBlank(gender_value) THEN ""
    ELSE IF Contains(Lower(gender_value), "female") THEN "Female"
    ELSE IF Contains(Lower(gender_value), "male") THEN "Male"
    ELSE ""

\* DEFAULT_STATE_MAPPINGS, in dictionary order
DEFAULT_STATE_MAPPINGS == <<
    <<"AL", "Alabama">>, <<"AK", "Alaska">>, <<"AZ", "Arizona">>,
    <<"AR", "Arkansas">>, <<"CA", "California">>, <<"CO", "Colorado">>,
    <<"CT", "Connecticut">>, <<"DE", "Delaware">>, <<"FL", "Florida">>,
    <<"GA", "Georgia">>, <<"HI", "Hawaii">>, <<"ID", "Idaho">>,
    <<"IL", "Illinois">>, <<"IN", "Indiana">>, <<"IA", "Iowa">>,
    <<"KS", "Kansas">>, <<"KY", "Kentucky">>, <<"LA", "Louisiana">>,
    <<"ME", "Maine">>, <<"MD", "Maryland">>, <<"MA", "Massachusetts">>,
    <<"MI", "Michigan">>, <<"MN", "Minnesota">>, <<"MS", "Mississippi">>,
    <<"MO", "Missouri">>, <<"MT", "Montana">>, <<"NE", "Nebraska">>,
    <<"NV", "Nevada">>, <<"NH", "New Hampshire">>, <<"NJ", "New Jersey">>,
    <<"NM", "New Mexico">>, <<"NY", "New York">>, <<"NC", "North Carolina">>,
    <<"ND", "North Dakota">>, <<"OH", "Ohio">>, <<"OK", "Oklahoma">>,
    <<"OR", "Oregon">>, <<"PA", "Pennsylvania">>, <<"RI", "Rhode Island">>,
    <<"SC", "South Carolina">>, <<"SD", "South Dakota">>, <<"TN", "Tennessee">>,
    <<"TX", "Texas">>, <<"UT", "Utah">>, <<"VT", "Vermont">>,
    <<"VA", "Virginia">>, <<"WA", "Washington">>, <<"WV", "West Virginia">>,
    <<"WI", "Wisconsin">>, <<"WY", "Wyoming">>, <<"DC", "District of Columbia">>,
    <<"AS", "American Samoa">>, <<"GU", "Guam">>, <<"MP", "Northern Mariana Islands">>,
    <<"PR", "Puerto Rico">>, <<"VI", "U.S. Virgin Islands">>
>>

StateNames == {DEFAULT_STATE_MAPPINGS[i][2] : i \in 1..Len(DEFAULT_STATE_MAPPINGS)}

DEFAULT_VALID_STATES ==
    StateNames \cup
    {"Armed Forces Europe", "Armed Forces Pacific", "Armed Forces the Americas",
     "Federated States of Micronesia", "Marshall Islands", "Republic of Palau",
     "United States Minor Outlying Islands"}

\* no valid_states_list argument (None)
NoList == [given |-> FALSE, list |-> {}]

\* a variant of standardize_state_name that returns the trimmed value as
\* written
standardize_state_name_as_written(state_value, valid_states_list, default_return) ==
    IF IsBlank(state_value) THEN default_return ELSE Strip(state_value)

\* standardize_state_name(state_value, valid_states_list, default_return)
standardize_state_name(state_value, valid_states_list, default_return) ==
    IF IsBlank(state_value) THEN default_return
    ELSE
    LET state_str == Strip(state_value)
        N == Len(DEFAULT_STATE_MAPPINGS)
        byAbbr == {i \in 1..N : DEFAULT_STATE_MAPPINGS[i][1] = Upper(state_str)}
        byName == {i \in 1..N : Lower(DEFAULT_STATE_MAPPINGS[i][2]) = Lower(state_str)}
        temp_valid_list == IF valid_states_list.given THEN valid_states_list.list
                           ELSE DEFAULT_VALID_STATES
        inTemp == {v \in temp_valid_list : Lower(v) = Lower(state_str)}
        standardized_name ==
            IF byAbbr # {} THEN DEFAULT_STATE_MAPPINGS[CHOOSE i \in byAbbr : TRUE][2]
            ELSE IF byName # {}
                 THEN DEFAULT_STATE_MAPPINGS[CHOOSE i \in byName : \A j \in byName : i <= j][2]
            ELSE IF inTemp # {} THEN CHOOSE v \in inTemp : TRUE
            ELSE state_str
        inList == {v \in valid_states_list.list : Lower(v) = Lower(standardized_name)}
    IN  IF standardized_name = "" THEN default_return
        ELSE IF valid_states_list.given /\ standardized_name \notin valid_states_list.list
             THEN (IF inList # {} THEN CHOOSE v \in inList : TRUE ELSE default_return)
        ELSE standardized_name

US_VARIANTS == {"US", "USA", "U.S.", "U.S.A.", "UNITED STATES"}

\* country_map of standardize_country_code, in dictionary order
COUNTRY_MAP == <<
    <<"USA", "United States">>, <<"U.S.", "United States">>, <<"U.S.A.", "United States">>,
    <<"UNITED STATES OF AMERICA", "United States">>, <<"AMERICA", "United States">>,
    <<"CA", "Canada">>, <<"CAN", "Canada">>, <<"MX", "Mexico">>, <<"MEX", "Mexico">>,
    <<"UK", "United Kingdom">>, <<"GB", "United Kingdom">>, <<"GBR", "United Kingdom">>,
    <<"GREAT BRITAIN", "United Kingdom">>, <<"ENGLAND", "United Kingdom">>
>>

standardize_country_code(country) ==
    IF IsBlank(country) THEN "United States"
    ELSE LET country_str == Strip(country)
             country_upper == Upper(country_str)
             hits == {i \in 1..Len(COUNTRY_MAP) : COUNTRY_MAP[i][1] = country_upper}
         IN  IF country_upper \in US_VARIANTS THEN "United States"
             ELSE IF hits # {} THEN COUNTRY_MAP[CHOOSE i \in hits : \A j \in hits : i <= j][2]
             ELSE country_str

\* ---- dates ------------------------------------------------------------

NoDate == [ok |-> FALSE, y |-> 0, m |-> 0, d |-> 0]

IsLeap(y) == (y % 4 = 0 /\ y % 100 # 0) \/ y % 400 = 0

DaysInMonth(y, m) ==
    IF m = 2 THEN (IF IsLeap(y) THEN 29 ELSE 28)
    ELSE IF m \in {4, 6, 9, 11} THEN 30 ELSE 31

\* One strptime directive against one field: the value, or -1 when the
\* directive's regular expression does not match the whole field.
\*   %Y \d\d\d\d   %y \d\d   %m 1[0-2]|0[1-9]|[1-9]
\*   %d 3[01]|[12]\d|0[1-9]|[1-9]| [1-9]
Directive(dch, f) ==
    CASE dch = "Y" -> IF Len(f) = 4 /\ AllDigits(f) THEN NatOf(f) ELSE -1
      [] dch = "y" -> IF Len(f) = 2 /\ AllDigits(f)
                      THEN (IF NatOf(f) <= 68 THEN 2000 + NatOf(f) ELSE 1900 + NatOf(f))
                      ELSE -1
      [] dch = "m" -> IF Len(f) \in {1, 2} /\ AllDigits(f) /\ NatOf(f) \in 1..12
                         /\ (Len(f) = 2 \/ Char(f, 1) # "0")
                      THEN NatOf(f) ELSE -1
      [] dch = "d" -> IF Len(f) \in {1, 2} /\ AllDigits(f) /\ NatOf(f) \in 1..31
                      THEN NatOf(f)
                      ELSE IF Len(f) = 2 /\ Char(f, 1) = " " /\ IsDigit(Char(f, 2))
                              /\ Char(f, 2) # "0"
                      THEN DigitVal(Char(f, 2)) ELSE -1

\* datetime.strptime(date_str, fmt) for a format "%a<sep>%b<sep>%c"; ok is
\* FALSE where strptime raises ValueError.
strptime(date_str, fmt) ==
    With(Split(date_str, Char(fmt, 3)), LAMBDA parts :
      IF Len(parts) # 3 THEN NoDate
      ELSE
      With([k \in 1..3 |-> Directive(Char(fmt, 3 * k - 1), parts[k])], LAMBDA val :
      With([yr |-> val[CHOOSE k \in 1..3 : Char(fmt, 3 * k - 1) \in {"Y", "y"}],
            mo |-> val[CHOOSE k \in 1..3 : Char(fmt, 3 * k - 1) = "m"],
            dy |-> val[CHOOSE k \in 1..3 : Char(fmt, 3 * k - 1) = "d"]], LAMBDA f :
        IF f.yr < 1 \/ f.mo < 1 \/ f.dy < 1 THEN NoDate
        ELSE IF f.dy > DaysInMonth(f.yr, f.mo) THEN NoDate
        ELSE [ok |-> TRUE, y |-> f.yr, m |-> f.mo, d |-> f.dy])))

Pad2(n) == IF n < 10 THEN "0" \o StrOfNat(n) ELSE StrOfNat(n)

\* a variant of strftime that does not pad the month and the day
strftime_unpadded(dt) == StrOfNat(dt.y) \o "-" \o StrOfNat(dt.m) \o "-" \o StrOfNat(dt.d)

\* dt_object.strftime('%Y-%m-%d') (the C library does not pad the year)
strftime(dt) == StrOfNat(dt.y) \o "-" \o Pad2(dt.m) \o "-" \o Pad2(dt.d)

\* the default input_formats of format_date
DEFAULT_INPUT_FORMATS ==
    <<"%Y-%m-%d", "%m/%d/%Y", "%m-%d-%Y", "%m/%d/%y", "%d-%m-%Y",
      "%Y/%m/%d", "%y/%m/%d", "%m-%d-%y">>

\* TrainingConfig.DATE_INPUT_FORMATS
DATE_INPUT_FORMATS == <<"%Y-%m-%d", "%m/%d/%Y", "%d-%m-%Y", "%m-%d-%Y", "%m/%d/%y">>

\* re.match(r'\d{4}-\d{1,2}-\d{1,2}', date_str)
MatchesYmdPrefix(s) ==
    /\ Len(s) >= 8
    /\ AllDigits(SubSeq(s, 1, 4))
    /\ Char(s, 5) = "-"
    /\ \E a \in {1, 2} :
          /\ AllDigits(SubSeq(s, 6, 5 + a))
          /\ Char(s, 6 + a) = "-"
          /\ Len(s) >= 7 + a
          /\ IsDigit(Char(s, 7 + a))

\* a variant of FirstOk that takes the last element of dts with ok
RECURSIVE LastOk(_)
LastOk(dts) ==
    IF dts = <<>> THEN NoDate
    ELSE IF dts[Len(dts)].ok THEN dts[Len(dts)] ELSE LastOk(SubSeq(dts, 1, Len(dts) - 1))

\* the first element of dts with ok, NoDate when there is none
RECURSIVE FirstOk(_)
FirstOk(dts) ==
    IF dts = <<>> THEN NoDate ELSE IF dts[1].ok THEN dts[1] ELSE FirstOk(Tail(dts))

\* format_date(date_str, input_formats, default_return); an empty
\* input_formats stands for None
format_date(date_str, input_formats, default_return) ==
    IF IsBlank(date_str) THEN default_return
    ELSE
    With(Strip(date_str), LAMBDA ds :
    With(IF input_formats = <<>> THEN DEFAULT_INPUT_FORMATS ELSE input_formats, LAMBDA fmts :
    With(FirstOk([i \in 1..Len(fmts) |-> strptime(ds, fmts[i])]), LAMBDA dt :
      IF dt.ok THEN strftime(dt)
      ELSE IF MatchesYmdPrefix(ds)
           THEN With(strptime(ds, "%Y-%m-%d"), LAMBDA again :
                  IF again.ok THEN strftime(again) ELSE default_return)
      ELSE default_return)))

\* validate_counseling_date(date_str)
validate_counseling_date(date_str) ==
    IF date_str = "" THEN TRUE
    ELSE With(strptime(date_str, "%Y-%m-%d"), LAMBDA dt :
         With(strptime(MIN_COUNSELING_DATE, "%Y-%m-%d"), LAMBDA min :
           /\ dt.ok
           /\ \/ dt.y > min.y
              \/ dt.y = min.y /\ dt.m > min.m
              \/ dt.y = min.y /\ dt.m = min.m /\ dt.d >= min.d))

\* clean_whitespace(text): per line strip, collapse runs of whitespace,
\* remove every "[word]:" artifact, drop empty lines, join with "\n"
IsWordChar(c) == IsDigit(c) \/ c = "_" \/ LowerChar(c) # c \/ UpperChar(c) # c

\* length of the match of \[\w+\]: at the head of s, 0 when none
ArtifactLen(s) ==
    IF s = "" \/ Char(s, 1) # "[" THEN 0
    ELSE LET ends == {k \in 3..(Len(s) - 1) :
                        /\ \A j \in 2..(k - 1) : IsWordChar(Char(s, j))
                        /\ Char(s, k) = "]" /\ Char(s, k + 1) = ":"}
         IN  IF ends = {} THEN 0 ELSE (CHOOSE k \in ends : TRUE) + 1

RECURSIVE RemoveArtifacts(_)
RemoveArtifacts(s) ==
    IF s = "" THEN ""
    ELSE IF ArtifactLen(s) > 0 THEN RemoveArtifacts(SubSeq(s, ArtifactLen(s) + 1, Len(s)))
    ELSE Char(s, 1) \o RemoveArtifacts(SubSeq(s, 2, Len(s)))

\* ' '.join(line.split())
RECURSIVE CollapseSpaces(_)
CollapseSpaces(s) ==
    LET t == LStrip(s)
        isWs == {i \in 1..Len(t) : IsSpace(Char(t, i))}
        w == IF isWs = {} THEN Len(t) + 1 ELSE CHOOSE i \in isWs : \A j \in isWs : i <= j
        rest == LStrip(SubSeq(t, w, Len(t)))
    IN  IF t = "" THEN ""
        ELSE SubSeq(t, 1, w - 1) \o (IF rest = "" THEN "" ELSE " " \o CollapseSpaces(rest))

CleanLine(line) == RemoveArtifacts(CollapseSpaces(Strip(line)))

RECURSIVE JoinLines(_)
JoinLines(ls) ==
    IF ls = <<>> THEN ""
    ELSE IF Len(ls) = 1 THEN ls[1] ELSE ls[1] \o "\n" \o JoinLines(Tail(ls))

clean_whitespace(text) ==
    IF IsBlank(text) THEN ""
    ELSE LET RECURSIVE Keep(_)
             Keep(ls) == IF ls = <<>> THEN <<>>
                         ELSE (IF CleanLine(ls[1]) # "" THEN <<CleanLine(ls[1])>> ELSE <<>>)
                              \o Keep(Tail(ls))
         IN  JoinLines(Keep(Split(text, "\n")))

\* s.rfind(c), 1-based; 0 when absent
RFind(s, c) ==
    LET at == {i \in 1..Len(s) : Char(s, i) = c}
    IN  IF at = {} THEN 0 ELSE CHOOSE i \in at : \A j \in at : j <= i

\* a variant of Max2 that returns its first argument, no floor applied
Max2_left(a, b) == a

Max2(a, b) == IF a >= b THEN a ELSE b

\* truncate_counselor_notes(notes, max_length)
truncate_counselor_notes(notes, max_length) ==
    With(clean_whitespace(notes), LAMBDA cleaned_notes :
    With(SubSeq(cleaned_notes, 1, max_length), LAMBDA truncated :
    \* Python positions are 0-based: pos > 0 is position >= 2 here
    With(Max2(Max2(RFind(truncated, "."), RFind(truncated, "!")),
              Max2(RFind(truncated, "?"), RFind(truncated, "\n"))), LAMBDA last_boundary :
    With(RFind(truncated, " "), LAMBDA last_space :
      IF Len(cleaned_notes) <= max_length THEN cleaned_notes
      ELSE IF last_boundary >= 2 THEN SubSeq(cleaned_notes, 1, last_boundary)
      ELSE IF last_space >= 2 THEN SubSeq(cleaned_notes, 1, last_space - 1)
      ELSE truncated))))

\* ------------------------------------------------------------------------
\* Issue tracker (validation_report.py, class ValidationTracker)
\* ------------------------------------------------------------------------

Severities == {"error", "warning", "info"}

Categories == {MISSING_REQUIRED, MISSING_FIELD, INVALID_FORMAT, INVALID_VALUE, INVALID_DATE,
               TRUNCATED_VALUE, STANDARDIZED_VALUE, PROCESSING_ERROR, FILE_ACCESS,
               FILE_WRITE}

\* one Issue (the message text and the timestamp are not modelled)
Issue(record_id, severity, category, field_name) ==
    [record_id |-> record_id, severity |-> severity, category |-> category,
     field_name |-> field_name]

\* ValidationTracker.__init__
NewTracker ==
    [issues |-> <<>>,
     issue_counts |-> [k \in Severities \X Categories |-> 0],
     total_records |-> 0,
     successful_records |-> 0]

\* add_issue putting the new Issue at the head of the list
add_issue_at_head(trk, issue) ==
    [trk EXCEPT !.issues = <<issue>> \o @,
                !.issue_counts[<<issue.severity, issue.category>>] = @ + 1]

\* ValidationTracker.add_issue
add_issue(trk, issue) ==
    [trk EXCEPT !.issues = Append(@, issue),
                !.issue_counts[<<issue.severity, issue.category>>] = @ + 1]

RECURSIVE add_issues(_, _)
add_issues(trk, iss) ==
    IF iss = <<>> THEN trk ELSE add_issues(add_issue(trk, iss[1]), Tail(iss))

\* ValidationTracker.record_processed
record_processed(trk, success) ==
    [trk EXCEPT !.total_records = @ + 1,
                !.successful_records = IF success THEN @ + 1 ELSE @]

\* the methods class ValidationTracker defines
TrackerMethods ==
    {"__init__", "add_issue", "record_processed", "get_summary", "print_summary",
     "save_issues_to_csv", "generate_html_report"}

\* f"Row_{row_index}"
RowId(row_index) == "Row_" \o StrOfNat(row_index)

\* ------------------------------------------------------------------------
\* Record validators (src/data_validation.py)
\* ------------------------------------------------------------------------

\* What a call does: it returns a boolean ("true"/"false") or raises (exc names
\* the exception); issues are the Issues it added before that, in order.
Outcome(result, exc, issues) == [result |-> result, exc |-> exc, issues |-> issues]

\* validate_counseling_record with the identifier check dropped: every row
\* is passed on to the builders and nothing is reported
validate_counseling_record_unchecked(row, row_index) == Outcome("true", "", <<>>)

\* validate_counseling_record(row, row_index, validator)
validate_counseling_record(row, row_index) ==
    LET record_id == row[REQUIRED_FIELD]
        lastName == IF ~Truthy(row["Last Name"])
                    THEN <<Issue(record_id, "warning", MISSING_FIELD, "Last Name")>>
                    ELSE <<>>
        counseling_date == RowGet(row, "Date", "")
        formatted_date == format_date(counseling_date, <<>>, "")
        dateIssue ==
            IF counseling_date = "" THEN <<>>
            ELSE IF formatted_date = ""
                 THEN <<Issue(record_id, "warning", INVALID_FORMAT, "Date Counseled")>>
            ELSE IF ~validate_counseling_date(formatted_date)
                 THEN <<Issue(record_id, "warning", INVALID_DATE, "Date Counseled")>>
            ELSE <<>>
    IN  IF ~Truthy(record_id)
        THEN Outcome("false", "",
                     <<Issue(RowId(row_index), "error", MISSING_REQUIRED, REQUIRED_FIELD)>>)
        ELSE IF "set_current_record_id" \notin TrackerMethods
        THEN Outcome("raise", "AttributeError", <<>>)
        ELSE Outcome("true", "", lastName \o dateIssue)

\* validate_training_record(row, row_index, validator).  The row is a pandas
\* Series: read_csv turns an empty cell into NaN, which is truthy, so only a
\* missing column makes row.get(...) falsy (identifiers are taken non-numeric).
validate_training_record(row, row_index) ==
    LET record_id == row[EVENT_ID_COLUMN]
    IN  IF record_id = Absent
        THEN Outcome("false", "",
                     <<Issue(RowId(row_index), "error", MISSING_REQUIRED, EVENT_ID_COLUMN)>>)
        ELSE IF "set_current_record_id" \notin TrackerMethods
        THEN Outcome("raise", "AttributeError", <<>>)
        ELSE Outcome("true", "", <<>>)

\* validate_record(row, row_index, record_id) of the top-level
\* data_validation.py, called by csv_to_xml.create_xml_from_csv with
\* record_id = row.get('Contact ID', f"Row_{row_index}").  Its checks run in
\* source order; float(contact_hours or 0) on line 135 is not guarded.
validate_record(row, row_index, record_id) ==
    LET phone == RowGet(row, "Contact: Phone", "")
        email == RowGet(row, "Email", "")
        zip_code == RowGet(row, "Mailing Zip/Postal Code", "")
        country == RowGet(row, "Mailing Country", "US")
        signature_date == RowGet(row, "Client Signature - Date", "")
        female_ownership == RowGet(row, "Business Ownership - % Female", "")
        counseling_date == RowGet(row, "Date", "")
        formatted_date == format_date(counseling_date, <<>>, "")
        session_type == RowGet(row, "Type of Session", "Telephone")
        contact_hours == RowGet(row, "Duration (hours)", "0")
        hours == ParseFloat(contact_hours)
        needsHours == session_type \notin {"Prepare Only", "Training", "Update Only"}
        One(cond, severity, category, field_name) ==
            IF cond THEN <<Issue(record_id, severity, category, field_name)>> ELSE <<>>
        \* lines 30-129
        first ==
            (IF record_id = ""
             THEN <<Issue(RowId(row_index), "error", MISSING_REQUIRED, "Contact ID")>>
             ELSE <<>>)
            \o One(RowGet(row, "Last Name", "") = "", "warning", MISSING_FIELD, "Last Name")
            \o One(RowGet(row, "First Name", "") = "", "warning", MISSING_FIELD, "First Name")
            \o One(phone # "" /\ clean_phone_number(phone) = "",
                   "warning", INVALID_FORMAT, "Phone")
            \o One(email # "" /\ ~Contains(email, "@"), "warning", INVALID_FORMAT, "Email")
            \o One(zip_code # "" /\ ~(Strip(zip_code) # "" /\ AllDigits(Strip(zip_code))),
                   "warning", INVALID_FORMAT, "ZipCode")
            \o One(standardize_country_code(country) # country,
                   "info", STANDARDIZED_VALUE, "Country")
            \o One(signature_date # "" /\ format_date(signature_date, <<>>, "") = "",
                   "warning", INVALID_FORMAT, "Signature Date")
            \o One(RowGet(row, "Race", "") = "", "warning", MISSING_FIELD, "Race")
            \o One(female_ownership # "" /\ clean_percentage(female_ownership).raised,
                   "warning", INVALID_FORMAT, "Business Ownership - % Female")
            \o One(counseling_date # "" /\ formatted_date = "",
                   "warning", INVALID_FORMAT, "Date Counseled")
            \o One(counseling_date # "" /\ formatted_date # ""
                     /\ ~validate_counseling_date(formatted_date),
                   "warning", INVALID_DATE, "Date Counseled")
        \* lines 135-147
        last ==
            One(needsHours
                  /\ (contact_hours = ""
                        \/ (hours.sp # "nan" /\ (hours.sp = "" => hours.neg \/ NumIsZero(hours))
                              /\ (hours.sp = "inf" => hours.neg))),
                "warning", INVALID_VALUE, "Contact Hours")
            \o One(Len(RowGet(row, "Comments", "")) > MaxCounselorNotes,
                   "info", TRUNCATED_VALUE, "Counselor Notes")
    IN  IF needsHours /\ contact_hours # "" /\ ~hours.ok
        THEN Outcome("raise", "ValueError", first)
        ELSE Outcome(IF record_id = "" THEN "false" ELSE "true", "", first \o last)

\* ------------------------------------------------------------------------
\* XML elements (xml_utils.py) and the counseling section builders
\* (src/converters/counseling_converter.py)
\* ------------------------------------------------------------------------

\* create_element(parent, element_name, element_text) yields this child; an
\* element without text (None) and one with text '' serialise alike and are
\* both written "".
El(tag, text, kids) == [tag |-> tag, text |-> text, kids |-> kids]
Leaf(tag, text) == El(tag, text, <<>>)
Node(tag, kids) == El(tag, "", kids)

Opt(cond, el) == IF cond THEN <<el>> ELSE <<>>

CodeKids(codes) == [i \in 1..Len(codes) |-> Leaf("Code", codes[i])]

\* re.match(r'^\d{5}', zip_full): the leading five digits, else ''
Zip5(zip_full) ==
    IF Len(zip_full) >= 5 /\ AllDigits(SubSeq(zip_full, 1, 5)) THEN SubSeq(zip_full, 1, 5)
    ELSE ""

\* What a section builder does: el is the section element as it stands when
\* the builder returns or raises, issues the Issues it added, exc the
\* exception it raised ("" when it returned).
Built(el, issues, exc) == [el |-> el, issues |-> issues, exc |-> exc]

\* CounselingConverter._build_client_request_section
build_client_request_section(row, record_id) ==
    LET zip_full == Strip(RowGet(row, "Mailing Zip/Postal Code", ""))
        zip_5digit == Zip5(zip_full)
        signature_onfile == RowGet(row, "Client Signature(On File)", "No")
    IN  Built(
          Node("ClientRequest", <<
            Node("ClientNamePart1", <<
              Leaf("Last", RowGet(row, "Last Name", "")),
              Leaf("First", RowGet(row, "First Name", "")),
              Leaf("Middle", RowGet(row, "Middle Name", "")) >>),
            Leaf("Email", RowGet(row, "Email", "")),
            Node("PhonePart1", <<
              Leaf("Primary", clean_phone_number(RowGet(row, "Contact: Phone", ""))),
              Leaf("Secondary", "") >>),
            Node("AddressPart1", <<
              Leaf("Street1", RowGet(row, "Mailing Street", "")),
              Leaf("Street2", ""),
              Leaf("City", RowGet(row, "Mailing City", "")),
              Leaf("State", standardize_state_name(RowGet(row, "Mailing State/Province", ""),
                                                   NoList, "")),
              Leaf("ZipCode", zip_5digit),
              Leaf("Zip4Code", ""),
              Node("Country", <<
                Leaf("Code", standardize_country_code(RowGet(row, "Mailing Country", "US"))) >>)
              >>),
            Leaf("SurveyAgreement", RowGet(row, "Agree to Impact Survey", "No")),
            Node("ClientSignature", <<
              Leaf("Date", format_date(RowGet(row, "Client Signature - Date", ""), <<>>, "")),
              Leaf("OnFile", IF signature_onfile = "1" THEN "Yes" ELSE "No") >>)
          >>),
          IF zip_5digit = "" /\ zip_full # ""
          THEN <<Issue(record_id, "warning", INVALID_FORMAT, "Mailing Zip/Postal Code")>>
          ELSE <<>>,
          "")

NON_MILITARY_STATUSES == {"prefer not to say", "no military service", ""}

\* CounselingConverter._build_client_intake_section
build_client_intake_section(row, record_id) ==
    LET race_codes == split_multi_value(RowGet(row, "Race", ""))
        ethnicity_csv == Strip(RowGet(row, "Ethnicity:", ""))
        sex_value == map_gender_to_sex(RowGet(row, "Gender", ""))
        disability_csv == Strip(RowGet(row, "Disability", ""))
        military_status_csv == Strip(RowGet(row, "Veteran Status", ""))
        needsBranch == /\ military_status_csv # ""
                       /\ Lower(military_status_csv) \notin NON_MILITARY_STATUSES
        branch_csv == Strip(RowGet(row, "Branch Of Service", ""))
        branchOk == branch_csv # "" /\ Lower(branch_csv) \notin NON_MILITARY_STATUSES
        media_codes == split_multi_value(RowGet(row, "What Prompted you to contact us?", ""))
        media_other == Strip(RowGet(row, "Internet (specify)", ""))
        internet_usage == Strip(RowGet(row, "InternetUsage", ""))
        in_business_val == RowGet(row, "Currently In Business?", DEFAULT_BUSINESS_STATUS)
        exporting_val == RowGet(row, "Are you currently exporting?(old)", DEFAULT_BUSINESS_STATUS)
        female_ownership_val ==
            clean_percentage(RowGet(row, "Business Ownership - % Female(old)", "0"))
        le_codes == split_multi_value(RowGet(row, "Legal Entity of Business", ""))
        le_other == Strip(RowGet(row, "Other legal entity (specify)", ""))
        inBusiness == Lower(in_business_val) = "yes"
        rural_urban_val == RowGet(row, "Rural_vs_Urban", DEFAULT_URBAN_RURAL)
        needsFips == Lower(rural_urban_val) \in {"rural", "urban"}
        fips_code == Strip(RowGet(row, "FIPS_Code", ""))
        cs_codes == split_multi_value(RowGet(row, "Nature of the Counseling Seeking?", ""))
        cs_other == Strip(RowGet(row, "Nature of the Counseling Seeking - Other Detail", ""))
        hasCs == cs_codes # <<>> \/ cs_other # ""
        is_other_present == \E i \in 1..Len(cs_codes) : Lower(cs_codes[i]) = "other"
        \* lines 116-172: up to and including the empty BusinessOwnership element
        kidsA ==
            <<Node("Race", IF race_codes # <<>> THEN CodeKids(race_codes)
                           ELSE <<Leaf("Code", "Prefer not to say")>>)>>
            \o Opt(ethnicity_csv # "", Leaf("Ethnicity", ethnicity_csv))
            \o Opt(sex_value # "", Leaf("Sex", sex_value))
            \o Opt(disability_csv # "", Leaf("Disability", disability_csv))
            \o Opt(military_status_csv # "", Leaf("MilitaryStatus", military_status_csv))
            \o Opt(needsBranch /\ branchOk, Leaf("BranchOfService", branch_csv))
            \o Opt(media_codes # <<>> \/ media_other # "",
                   Node("Media", CodeKids(media_codes)
                                 \o Opt(media_other # "", Leaf("Other", media_other))))
            \o Opt(internet_usage # "", Leaf("Internet", internet_usage))
            \o <<Leaf("CurrentlyInBusiness", in_business_val),
                 Leaf("CurrentlyExporting", exporting_val),
                 Leaf("CompanyName", RowGet(row, "Account Name", "")),
                 Leaf("BusinessType", RowGet(row, "Type of Business", ""))>>
        issuesA ==
            (IF race_codes = <<>>
             THEN <<Issue(record_id, "warning", MISSING_FIELD, "Race")>> ELSE <<>>)
            \o (IF needsBranch /\ ~branchOk
                THEN <<Issue(record_id, "error", MISSING_REQUIRED, "BranchOfService")>>
                ELSE <<>>)
        \* lines 174-218
        kidsB ==
            <<Node("BusinessOwnership", <<Leaf("Female", female_ownership_val.val)>>),
              Leaf("ConductingBusinessOnline",
                   RowGet(row, "Conduct Business Online?", DEFAULT_BUSINESS_STATUS)),
              Leaf("ClientIntake_Certified8a",
                   RowGet(row, "8(a) Certified?(old)", DEFAULT_BUSINESS_STATUS)),
              Leaf("TotalNumberOfEmployees",
                   clean_numeric(RowGet(row, "Total Number of Employees", "0"))),
              Leaf("NumberOfEmployeesInExportingBusiness", "0"),
              Node("ClientAnnualIncomePart2", <<
                Leaf("GrossRevenues", clean_numeric(RowGet(row, "Gross Revenues/Sales", "0"))),
                Leaf("ProfitLoss", clean_numeric(RowGet(row, "Profits/Losses", "0"))),
                Leaf("ExportGrossRevenuesOrSales", "0") >>)>>
            \o Opt(inBusiness,
                   Node("LegalEntity",
                        (IF le_codes # <<>> THEN CodeKids(le_codes)
                         ELSE <<Leaf("Code", "Other")>>)
                        \o Opt(le_other # "", Leaf("Other", le_other))))
            \o <<Leaf("Rural_vs_Urban", rural_urban_val)>>
            \o Opt(needsFips /\ fips_code # "", Leaf("FIPS_Code", fips_code))
            \o Opt(hasCs, Node("CounselingSeeking",
                               CodeKids(cs_codes) \o <<Leaf("Other", cs_other)>>))
        issuesB ==
            (IF inBusiness /\ le_codes = <<>> /\ le_other = ""
             THEN <<Issue(record_id, "error", MISSING_REQUIRED, "LegalEntity")>> ELSE <<>>)
            \o (IF needsFips /\ fips_code = ""
                THEN <<Issue(record_id, "error", MISSING_REQUIRED, "FIPS_Code")>> ELSE <<>>)
            \o (IF hasCs /\ is_other_present /\ cs_other = ""
                THEN <<Issue(record_id, "error", MISSING_REQUIRED, "CounselingSeeking/Other")>>
                ELSE <<>>)
    IN  IF female_ownership_val.raised
        THEN Built(Node("ClientIntake", kidsA \o <<Node("BusinessOwnership", <<>>)>>),
                   issuesA, "ValueError")
        ELSE Built(Node("ClientIntake", kidsA \o kidsB), issuesA \o issuesB, "")

\* CounselingConverter._build_counselor_record_section
build_counselor_record_section(row, record_id) ==
    LET zip_full_p3 == Strip(RowGet(row, "Mailing Zip/Postal Code", ""))
        date1 == format_date(RowGet(row, "Business Start Date", ""), <<>>, "")
        business_start_date ==
            IF date1 # "" THEN date1
            ELSE format_date(RowGet(row, "Date Started (Meeting)", ""), <<>>, "")
        provided_codes ==
            split_multi_value(RowGet(row, "Services Provided", "Business Start-up/Preplanning"))
        session_type_raw == RowGet(row, "Type of Session", DEFAULT_SESSION_TYPE)
        session_type_1 == IF Strip(session_type_raw) = "Update" THEN "Update Only"
                          ELSE Strip(session_type_raw)
        session_type == IF session_type_1 \notin VALID_SESSION_TYPES THEN DEFAULT_SESSION_TYPE
                        ELSE session_type_1
        contact_clean == clean_numeric(RowGet(row, "Duration (hours)", "0"))
        contact_val == IF session_type \notin NO_CONTACT_HOUR_SESSION_TYPES
                          /\ NonPositive(contact_clean)
                       THEN "0.5" ELSE contact_clean
    IN  Built(
          Node("CounselorRecord", <<
            Leaf("PartnerSessionNumber", RowGet(row, "Activity ID", "")),
            Leaf("FundingSource", ""),
            Node("ClientNamePart3", <<
              Leaf("Last", RowGet(row, "Last Name", "")),
              Leaf("First", RowGet(row, "First Name", "")),
              Leaf("Middle", RowGet(row, "Middle Name", "")) >>),
            Leaf("Email", RowGet(row, "Email", "")),
            Node("PhonePart3", <<
              Leaf("Primary", clean_phone_number(RowGet(row, "Contact: Phone", ""))),
              Leaf("Secondary", "") >>),
            Node("AddressPart3", <<
              Leaf("Street1", RowGet(row, "Mailing Street", "")),
              Leaf("Street2", ""),
              Leaf("City", RowGet(row, "Mailing City", "")),
              Leaf("State", standardize_state_name(RowGet(row, "Mailing State/Province", ""),
                                                   NoList, "")),
              Leaf("ZipCode", Zip5(zip_full_p3)),
              Leaf("Zip4Code", ""),
              Node("Country", <<
                Leaf("Code", standardize_country_code(RowGet(row, "Mailing Country", "US"))) >>)
              >>),
            Leaf("VerifiedToBeInBusiness", "Undetermined"),
            Leaf("ReportableImpact", RowGet(row, "Reportable Impact", DEFAULT_BUSINESS_STATUS)),
            Leaf("DateOfReportableImpact",
                 format_date(RowGet(row, "Reportable Impact Date", ""), <<>>, "")),
            Leaf("CurrentlyExporting", DEFAULT_BUSINESS_STATUS) >>
          \o Opt(business_start_date # "", Leaf("BusinessStartDatePart3", business_start_date))
          \o <<
            Leaf("TotalNumberOfEmployees",
                 clean_numeric(RowGet(row, "Total No. of Employees (Meeting)",
                                      RowGet(row, "Total Number of Employees", "0")))),
            Leaf("NumberOfEmployeesInExportingBusiness", "0"),
            Node("ClientAnnualIncomePart3", <<
              Leaf("GrossRevenues",
                   clean_numeric(RowGet(row, "Gross Revenues/Sales (Meeting)",
                                        RowGet(row, "Gross Revenues/Sales", "0")))),
              Leaf("ProfitLoss",
                   clean_numeric(RowGet(row, "Profit & Loss (Meeting)",
                                        RowGet(row, "Profits/Losses", "0")))),
              Leaf("ExportGrossRevenuesOrSales", "0"),
              Leaf("GrowthIndicator", "") >>),
            Node("CounselingProvided", CodeKids(provided_codes)),
            Leaf("SessionType", session_type),
            Node("Language",
                 CodeKids(split_multi_value(RowGet(row, "Language(s) Used", DEFAULT_LANGUAGE)))
                 \o <<Leaf("Other", RowGet(row, "Language(s) Used (Other)", ""))>>),
            Leaf("DateCounseled", format_date(RowGet(row, "Date", ""), <<>>, "")),
            Leaf("CounselorName", RowGet(row, "Name of Counselor", "")),
            Node("CounselingHours", <<
              Leaf("Contact", contact_val),
              Leaf("Prepare", clean_numeric(RowGet(row, "Prep Hours", "0"))),
              Leaf("Travel", clean_numeric(RowGet(row, "Travel Hours", "0"))) >>),
            Leaf("CounselorNotes",
                 truncate_counselor_notes(RowGet(row, "Comments", ""), MaxCounselorNotes)),
            Leaf("SBALoanAmount", clean_numeric(RowGet(row, "SBA Loan Amount", "0"))),
            Leaf("NonSBALoanAmount", clean_numeric(RowGet(row, "Non-SBA Loan Amount", "0"))),
            Leaf("EquityCapitalReceived",
                 clean_numeric(RowGet(row, "Amount of Equity Capital Received", "0"))) >>),
          IF session_type_1 \notin VALID_SESSION_TYPES
          THEN <<Issue(record_id, "warning", INVALID_VALUE, "SessionType")>> ELSE <<>>,
          "")

\* The try body of CounselingConverter.convert (lines 55-66) for one row: the
\* CounselingRecord as it stands on the root when the body ends or raises.
build_counseling_record(row, record_id) ==
    With(<<Leaf("PartnerClientNumber", record_id),
           Node("Location", <<Leaf("LocationCode",
                                   RowGet(row, "LocationCode", DEFAULT_LOCATION_CODE))>>)>>,
         LAMBDA head :
    With(build_client_request_section(row, record_id), LAMBDA req :
    With(build_client_intake_section(row, record_id), LAMBDA intake :
    With(build_counselor_record_section(row, record_id), LAMBDA rec :
      IF req.exc # ""
      THEN Built(Node("CounselingRecord", head \o <<req.el>>), req.issues, req.exc)
      ELSE IF intake.exc # ""
      THEN Built(Node("CounselingRecord", head \o <<req.el, intake.el>>),
                 req.issues \o intake.issues, intake.exc)
      ELSE Built(Node("CounselingRecord", head \o <<req.el, intake.el, rec.el>>),
                 req.issues \o intake.issues \o rec.issues, rec.exc)))))

\* ------------------------------------------------------------------------
\* Rows
\* ------------------------------------------------------------------------

\* the columns the counseling converter and its validator read
CounselingColumns ==
    {"Contact ID", "LocationCode", "Last Name", "First Name", "Middle Name", "Email",
     "Contact: Phone", "Mailing Street", "Mailing City", "Mailing State/Province",
     "Mailing Zip/Postal Code", "Mailing Country", "Agree to Impact Survey",
     "Client Signature - Date", "Client Signature(On File)", "Race", "Ethnicity:", "Gender",
     "Disability", "Veteran Status", "Branch Of Service",
     "What Prompted you to contact us?", "Internet (specify)", "InternetUsage",
     "Currently In Business?", "Are you currently exporting?(old)", "Account Name",
     "Type of Business", "Business Ownership - % Female(old)", "Conduct Business Online?",
     "8(a) Certified?(old)", "Total Number of Employees", "Gross Revenues/Sales",
     "Profits/Losses", "Legal Entity of Business", "Other legal entity (specify)",
     "Rural_vs_Urban", "FIPS_Code", "Nature of the Counseling Seeking?",
     "Nature of the Counseling Seeking - Other Detail", "Activity ID", "Reportable Impact",
     "Reportable Impact Date", "Business Start Date", "Date Started (Meeting)",
     "Total No. of Employees (Meeting)", "Gross Revenues/Sales (Meeting)",
     "Profit & Loss (Meeting)", "Services Provided", "Type of Session", "Language(s) Used",
     "Language(s) Used (Other)", "Date", "Name of Counselor", "Duration (hours)",
     "Prep Hours", "Travel Hours", "Comments", "SBA Loan Amount", "Non-SBA Loan Amount",
     "Amount of Equity Capital Received",
     \* read by validate_record of the top-level data_validation.py only
     "Business Ownership - % Female"}

\* TrainingConfig.COLUMN_MAPPING: the headers tried, in order, per field
COLUMN_MAPPING(key) ==
    CASE key = "event_id" -> <<EVENT_ID_COLUMN>>
      [] key = "event_name" -> <<"Class/Event Name">>
      [] key = "start_date" -> <<"Start Date">>
      [] key = "training_topic" -> <<"Training Topic">>
      [] key = "event_type" -> <<"Class/Event Type">>
      [] key = "cosponsor" -> <<"Cosponsor", "CosponsorsName", "Partner Organization">>
      [] key = "city" -> <<"City", "city", "Address", "Street Line 1">>
      [] key = "state" -> <<"State/Province", "State", "state">>
      [] key = "zip" -> <<"Zip/Postal Code", "Zip", "zip", "ZipCode", "Zip code">>
      [] key = "business_status" ->
            <<"Currently in Business?", "Currently in Business", "In Business">>
      [] key = "gender" -> <<"Gender", "gender", "Sex">>
      [] key = "disability" -> <<"Disabilities", "Disability", "Has Disability">>
      [] key = "military_status" -> <<"Military Status", "Military", "Veteran Status">>
      [] key = "race" -> <<"Race", "race", "Racial Background">>
      [] key = "ethnicity" -> <<"Ethnicity", "ethnicity", "Ethnic Background">>
      [] OTHER -> <<>>

MappingKeys ==
    {"event_id", "event_name", "start_date", "training_topic", "event_type", "cosponsor",
     "city", "state", "zip", "business_status", "gender", "disability", "military_status",
     "race", "ethnicity"}

\* the columns the training converter reads
TrainingColumns ==
    UNION {{COLUMN_MAPPING(k)[i] : i \in 1..Len(COLUMN_MAPPING(k))} : k \in MappingKeys}

Columns == CounselingColumns \cup TrainingColumns

\* ------------------------------------------------------------------------
\* State
\* ------------------------------------------------------------------------

VARIABLES
    converter,          \* main.py CONVERTERS key: "counseling" or "training"
    readable,           \* the input file can be opened and parsed
    writable,           \* the output path can be written
    header,             \* the columns of the CSV header
    rows,               \* the rows read from the CSV
    pc,                 \* where convert stands
    row_index,          \* 1-based index of the next row
    valid_rows,         \* TrainingConverter.convert: rows that passed validation
    root,               \* children of the output root element
    validator,          \* the ValidationTracker
    processed_records,  \* local counter of convert
    skipped_records,    \* local counter of convert
    output,             \* the output file
    exc,                \* the exception convert raised to its caller, "" if none
    results,            \* what each builder application produced
    before,             \* the file as it was before the last fixer run
    runs                \* fixer runs made, with the add-missing flag of each

vars == <<converter, readable, writable, header, rows, pc, row_index, valid_rows, root,
          validator, processed_records, skipped_records, output, exc, results, before,
          runs>>

\* no file at the output path
NoFile == [written |-> FALSE, root |-> <<>>]

\* the document tree.write put at the output path
File(children) == [written |-> TRUE, root |-> children]

\* ------------------------------------------------------------------------
\* Inputs of a conversion run
\* ------------------------------------------------------------------------

MaxRows == 2

PCT_FEMALE == "Business Ownership - % Female(old)"

\* a row with the given identifier, event identifier and female-ownership
\* cells, every other cell empty
SampleRow(id, ev, pct) ==
    [c \in Columns |-> IF c = REQUIRED_FIELD THEN id
                       ELSE IF c = EVENT_ID_COLUMN THEN ev
                       ELSE IF c = PCT_FEMALE THEN pct
                       ELSE ""]

SampleRows == {SampleRow(id, ev, pct) : id \in {"", "C1"}, ev \in {"", "E1"}, pct \in {"50", "abc"}}

\* headers: complete, without the counseling identifier column, without the
\* training event identifier column
Headers == {Columns, Columns \ {REQUIRED_FIELD}, Columns \ {EVENT_ID_COLUMN}}

\* csv.DictReader / pandas.read_csv: a row has exactly the header's columns
Mask(row, hdr) == [c \in Columns |-> IF c \in hdr THEN row[c] ELSE Absent]

\* a row that makes the builders emit every optional element
FullRow ==
    [c \in Columns |->
        CASE c = REQUIRED_FIELD -> "C1"
          [] c = "Last Name" -> "Doe"
          [] c = "First Name" -> "Jane"
          [] c = "Email" -> "j@doe.org"
          [] c = "Contact: Phone" -> "(515) 555-0100"
          [] c = "Mailing Street" -> "1 Main St"
          [] c = "Mailing City" -> "Des Moines"
          [] c = "Mailing State/Province" -> "IA"
          [] c = "Mailing Zip/Postal Code" -> "50312-1234"
          [] c = "Mailing Country" -> "US"
          [] c = "Agree to Impact Survey" -> "Yes"
          [] c = "Client Signature - Date" -> "1/5/2024"
          [] c = "Client Signature(On File)" -> "1"
          [] c = "Race" -> "White;Asian"
          [] c = "Ethnicity:" -> "Non-Hispanic"
          [] c = "Gender" -> "Female"
          [] c = "Disability" -> "No"
          [] c = "Veteran Status" -> "Veteran"
          [] c = "Branch Of Service" -> "Army"
          [] c = "What Prompted you to contact us?" -> "Internet"
          [] c = "Internet (specify)" -> "search"
          [] c = "InternetUsage" -> "Yes"
          [] c = "Currently In Business?" -> "Yes"
          [] c = "Are you currently exporting?(old)" -> "No"
          [] c = "Account Name" -> "Doe LLC"
          [] c = "Type of Business" -> "Retail"
          [] c = PCT_FEMALE -> "50"
          [] c = "Conduct Business Online?" -> "Yes"
          [] c = "8(a) Certified?(old)" -> "No"
          [] c = "Total Number of Employees" -> "3"
          [] c = "Gross Revenues/Sales" -> "1000.50"
          [] c = "Profits/Losses" -> "-20"
          [] c = "Legal Entity of Business" -> "LLC"
          [] c = "Rural_vs_Urban" -> "Rural"
          [] c = "FIPS_Code" -> "19153"
          [] c = "Nature of the Counseling Seeking?" -> "Other"
          [] c = "Nature of the Counseling Seeking - Other Detail" -> "Grants"
          [] c = "Activity ID" -> "A1"
          [] c = "Reportable Impact" -> "Yes"
          [] c = "Business Start Date" -> "2020-02-29"
          [] c = "Total No. of Employees (Meeting)" -> "4"
          [] c = "Services Provided" -> "Marketing/Sales"
          [] c = "Type of Session" -> "Update"
          [] c = "Language(s) Used" -> "English;Spanish"
          [] c = "Date" -> "2024-01-05"
          [] c = "Name of Counselor" -> "Pat"
          [] c = "Duration (hours)" -> "1.5"
          [] c = "Prep Hours" -> "0.5"
          [] c = "Comments" -> "Met client. [U]: ok"
          [] OTHER -> ""]

\* rows that differ from FullRow in the cells one builder rule reads: the
\* business status with the legal entity cells, the session type with the
\* contact hours, the race cell, the ZIP cell
CaseRows ==
    {[FullRow EXCEPT !["Currently In Business?"] = biz,
                     !["Legal Entity of Business"] = le,
                     !["Other legal entity (specify)"] = other] :
        biz \in {"Yes", "YES", "No", "", " yes", Absent},
        le \in {"", "LLC", ";"},
        other \in {"", "Coop"}}
    \cup
    {[FullRow EXCEPT !["Type of Session"] = session, !["Duration (hours)"] = hours] :
        session \in {"Update", " Online ", "Bogus", "", "Training", "update", Absent},
        hours \in {"", "0", "-1", "abc", "1.5", " nan", "2", "0.0", Absent}}
    \cup
    {[FullRow EXCEPT !["Race"] = race] :
        race \in {"", " ", "nan", ";", " ; ", "White;Asian", "Asian; ;White", Absent}}
    \cup
    {[FullRow EXCEPT !["Mailing Zip/Postal Code"] = zip] :
        zip \in {"", "  ", "50312-1234", " 50312 ", "5O312", "5031", "x50312", Absent}}

\* the files read: up to MaxRows sample rows, or one of the case rows
Files == UNION {[1..k -> SampleRows] : k \in 0..MaxRows} \cup {<<r>> : r \in CaseRows}

Idle ==
    /\ results = <<>>
    /\ before = NoFile
    /\ runs = <<>>

Init ==
    /\ converter \in {"counseling", "training"}
    /\ readable \in BOOLEAN
    /\ writable \in BOOLEAN
    /\ header \in Headers
    /\ \E f \in Files : rows = [i \in 1..Len(f) |-> Mask(f[i], header)]
    /\ pc = "start"
    /\ row_index = 1
    /\ valid_rows = <<>>
    /\ root = <<>>
    /\ validator = NewTracker
    /\ processed_records = 0
    /\ skipped_records = 0
    /\ output = NoFile
    /\ exc = ""
    /\ Idle

\* ------------------------------------------------------------------------
\* CounselingConverter.convert (src/converters/counseling_converter.py)
\* ------------------------------------------------------------------------

\* lines 32-44: read the CSV; on failure add the file_access Issue and re-raise
CounselingRead ==
    /\ converter = "counseling"
    /\ pc = "start"
    /\ IF readable
       THEN /\ pc' = "rows"
            /\ UNCHANGED <<validator, exc>>
       ELSE /\ validator' = add_issue(validator, Issue("file", "error", FILE_ACCESS, "input_file"))
            /\ pc' = "raised"
            /\ exc' = "OSError"
    /\ UNCHANGED <<converter, readable, writable, header, rows, row_index, valid_rows, root,
                   processed_records, skipped_records, output, results, before, runs>>

\* lines 46-71: one iteration of the row loop, for the outcome v of the
\* validator, the tracker as the validator left it and the record b the try
\* body built.  The validator is called outside the try block, so what it
\* raises leaves convert.
CounselingRowDone(record_id, v, checked, b) ==
    IF v.result = "raise"
    THEN /\ validator' = checked
         /\ pc' = "raised"
         /\ exc' = v.exc
         /\ UNCHANGED <<row_index, root, processed_records, skipped_records>>
    ELSE IF v.result = "false"
    THEN /\ validator' = checked
         /\ skipped_records' = skipped_records + 1
         /\ row_index' = row_index + 1
         /\ UNCHANGED <<pc, exc, root, processed_records>>
    ELSE IF b.exc = ""
    THEN /\ root' = Append(root, b.el)
         /\ processed_records' = processed_records + 1
         /\ validator' = record_processed(add_issues(checked, b.issues), TRUE)
         /\ row_index' = row_index + 1
         /\ UNCHANGED <<pc, exc, skipped_records>>
    ELSE /\ root' = Append(root, b.el)
         /\ validator' =
              record_processed(
                add_issue(add_issues(checked, b.issues),
                          Issue(record_id, "error", PROCESSING_ERROR, "record")),
                FALSE)
         /\ row_index' = row_index + 1
         /\ UNCHANGED <<pc, exc, processed_records, skipped_records>>

CounselingRow ==
    /\ converter = "counseling"
    /\ pc = "rows"
    /\ row_index <= Len(rows)
    /\ CounselingRowDone(
         RowGet(rows[row_index], REQUIRED_FIELD, RowId(row_index)),
         validate_counseling_record(rows[row_index], row_index),
         add_issues(validator, validate_counseling_record(rows[row_index], row_index).issues),
         build_counseling_record(rows[row_index],
                                 RowGet(rows[row_index], REQUIRED_FIELD, RowId(row_index))))
    /\ UNCHANGED <<converter, readable, writable, header, rows, valid_rows, output, results,
                   before, runs>>

\* lines 73-83: write the document; on failure add the file_write Issue and
\* re-raise
CounselingWrite ==
    /\ converter = "counseling"
    /\ pc = "rows"
    /\ row_index > Len(rows)
    /\ IF writable
       THEN /\ output' = File(root)
            /\ pc' = "returned"
            /\ UNCHANGED <<validator, exc>>
       ELSE /\ validator' = add_issue(validator, Issue("file", "error", FILE_WRITE, "output_file"))
            /\ pc' = "raised"
            /\ exc' = "OSError"
            /\ UNCHANGED output
    /\ UNCHANGED <<converter, readable, writable, header, rows, row_index, valid_rows, root,
                   processed_records, skipped_records, results, before, runs>>

\* ------------------------------------------------------------------------
\* TrainingConverter (src/converters/training_converter.py)
\* ------------------------------------------------------------------------

\* the names bound in module training_converter (its imports and its class)
TrainingConverterGlobals ==
    {"pd", "md", "Element", "tostring", "re", "BaseConverter", "TrainingConfig",
     "GeneralConfig", "ValidationCategory", "data_cleaning", "create_element", "escape_xml",
     "TrainingConverter"}

\* pandas reads an empty cell as NaN
IsNa(cell) == cell = ""

\* TrainingConverter._get_column_value(record, key, default='')
get_column_value(record, key) ==
    LET cols == COLUMN_MAPPING(key)
        hits == {i \in 1..Len(cols) : record[cols[i]] # Absent /\ ~IsNa(record[cols[i]])}
    IN  IF hits = {} THEN "" ELSE record[cols[CHOOSE i \in hits : \A j \in hits : i <= j]]

\* xml_utils.escape_xml
RECURSIVE escape_xml(_)
escape_xml(text) ==
    IF text = "" THEN ""
    ELSE LET c == Char(text, 1)
         IN  (CASE c = "&" -> "&amp;" [] c = "<" -> "&lt;" [] c = ">" -> "&gt;"
                [] c = "\"" -> "&quot;" [] c = "'" -> "&apos;" [] OTHER -> c)
             \o escape_xml(SubSeq(text, 2, Len(text)))

\* a variant of map_value that compares the keys as written, whatever
\* case_sensitive says
map_value_exact(value, mapping_dict, default_value, case_sensitive) ==
    LET value_str == Strip(value)
        hits == {i \in 1..Len(mapping_dict) : mapping_dict[i][1] = value_str}
    IN  IF value = Absent \/ value_str = "" \/ hits = {} THEN default_value
        ELSE mapping_dict[CHOOSE i \in hits : \A j \in hits : i <= j][2]

\* data_cleaning.map_value(value, mapping_dict, default_value, case_sensitive)
map_value(value, mapping_dict, default_value, case_sensitive) ==
    LET value_str == Strip(value)
        hits == {i \in 1..Len(mapping_dict) :
                    IF case_sensitive THEN mapping_dict[i][1] = value_str
                    ELSE Lower(mapping_dict[i][1]) = Lower(value_str)}
    IN  IF value = Absent \/ value_str = "" \/ hits = {} THEN default_value
        ELSE mapping_dict[CHOOSE i \in hits : \A j \in hits : i <= j][2]

TRAINING_TOPIC_MAPPINGS == <<
    <<"Technology", "Technology">>, <<"Tech", "Technology">>, <<"IT", "Technology">>,
    <<"Marketing", "Marketing/Sales">>, <<"Sales", "Marketing/Sales">>,
    <<"Start-up", "Business Start-up/Preplanning">>,
    <<"Startup", "Business Start-up/Preplanning">>,
    <<"Business Plan", "Business Plan">> >>

PROGRAM_FORMAT_MAPPINGS == <<
    <<"Hybrid", "Hybrid">>, <<"In-person", "In-person">>, <<"On Demand", "On Demand">>,
    <<"Online", "Online">>, <<"Seminar", "In-person">>, <<"Webinar", "Online">>,
    <<"Virtual", "Online">>, <<"Remote", "Online">> >>

DEFAULT_START_DATE == "2023-12-12"
DEFAULT_LOCATION == [city |-> "Des Moines", state |-> "Iowa", zip |-> "50312",
                     country |-> "United States"]

\* re.search(r'\d{5}', zip_code_raw): the first run of five digits, else ''
SearchZip5(raw) ==
    LET at == {i \in 1..(Len(raw) - 4) : AllDigits(SubSeq(raw, i, i + 4))}
    IN  IF at = {} THEN "" ELSE LET i == CHOOSE i \in at : \A j \in at : i <= j
                                IN  SubSeq(raw, i, i + 4)

\* a variant of build_location_section in which each of city, state and zip
\* falls back to the default on its own
build_location_section_piecewise(record) ==
    LET city == get_column_value(record, "city")
        state == get_column_value(record, "state")
        zip_code == SearchZip5(get_column_value(record, "zip"))
    IN  Node("TrainingLocation", <<
          Leaf("City", escape_xml(IF city = "" THEN DEFAULT_LOCATION.city ELSE city)),
          Leaf("State", standardize_state_name(
                          IF state = "" THEN DEFAULT_LOCATION.state ELSE state, NoList, "")),
          Leaf("ZipCode", escape_xml(IF zip_code = "" THEN DEFAULT_LOCATION.zip ELSE zip_code)),
          Node("Country", <<Leaf("Code", DEFAULT_LOCATION.country)>>) >>)

\* TrainingConverter._build_location_section
build_location_section(record) ==
    LET city == get_column_value(record, "city")
        state == get_column_value(record, "state")
        zip_code == SearchZip5(get_column_value(record, "zip"))
        useDefault == ~(city # "" /\ state # "" /\ zip_code # "")
    IN  Node("TrainingLocation", <<
          Leaf("City", escape_xml(IF useDefault THEN DEFAULT_LOCATION.city ELSE city)),
          Leaf("State", standardize_state_name(
                          IF useDefault THEN DEFAULT_LOCATION.state ELSE state, NoList, "")),
          Leaf("ZipCode", escape_xml(IF useDefault THEN DEFAULT_LOCATION.zip ELSE zip_code)),
          Node("Country", <<Leaf("Code", DEFAULT_LOCATION.country)>>) >>)

RECURSIVE SumSeq(_)
SumSeq(q) == IF q = <<>> THEN 0 ELSE q[1] + SumSeq(Tail(q))

\* sum(df[column_name].fillna('').astype(str).str.lower().str.contains(pattern))
\* for a pattern that is an alternation of plain keywords
CountContains(df, column_name, keywords) ==
    SumSeq([i \in 1..Len(df) |->
              IF \E k \in keywords : Contains(Lower(df[i][column_name]), k) THEN 1 ELSE 0])

\* count_matches of _calculate_demographics: the column looked up is the one
\* NAMED BY THE VALUE of the first row's cell for column_key
count_matches(df, column_key, keywords) ==
    LET column_name == get_column_value(df[1], column_key)
    IN  IF column_name = "" \/ column_name \notin Columns \/ df[1][column_name] = Absent
        THEN 0
        ELSE CountContains(df, column_name, keywords)

YES_KEYWORDS == {"yes", "true", "1", "y"}

RACE_KEYWORDS == <<
    <<"Asian", {"asian"}>>,
    <<"BlackOrAfricanAmerican", {"black", "african american"}>>,
    <<"NativeAmericanOrAlaskaNative", {"american indian", "alaska native", "native american"}>>,
    <<"NativeHawaiianOrPacificIslander", {"hawaiian", "pacific islander"}>>,
    <<"White", {"white", "caucasian"}>>,
    <<"MiddleEastern", {"middle east"}>>,
    <<"NorthAfrican", {"north africa"}>> >>

\* TrainingConverter._calculate_demographics
calculate_demographics(df) ==
    LET total == Len(df)
        bs == get_column_value(df[1], "business_status")
        hasBs == bs # "" /\ bs \in Columns /\ df[1][bs] # Absent
        inBusiness == CountContains(df, bs, YES_KEYWORDS)
        eth == get_column_value(df[1], "ethnicity")
        hasEth == eth # "" /\ eth \in Columns /\ df[1][eth] # Absent
        race == [i \in 1..Len(RACE_KEYWORDS) |-> count_matches(df, "race", RACE_KEYWORDS[i][2])]
        hispanic == count_matches(df, "ethnicity", {"hispanic", "latino"})
    IN  [total |-> Max2(total, 2),
         simple |-> <<
           <<"CurrentlyInBusiness", IF hasBs THEN inBusiness ELSE 0>>,
           <<"NotYetInBusiness", IF hasBs THEN total - inBusiness ELSE 0>>,
           <<"PersonWithDisabilities", count_matches(df, "disability", YES_KEYWORDS)>>,
           <<"Female", count_matches(df, "gender", {"female", "f", "woman", "women"})>>,
           <<"Male", count_matches(df, "gender", {"male", "m", "man", "men"})>>,
           <<"ActiveDuty", count_matches(df, "military_status", {"active duty", "active-duty"})>>,
           <<"Veterans", count_matches(df, "military_status", {"veteran"})>>,
           <<"ServiceDisabledVeterans",
             count_matches(df, "military_status", {"service disabled", "disabled vet"})>>,
           <<"MemberOfReserveOrNationalGuard",
             count_matches(df, "military_status", {"reserve", "guard"})>>,
           <<"SpouseOfMilitaryMember", count_matches(df, "military_status", {"spouse"})>> >>,
         race |-> race,
         hispanic |-> hispanic,
         non_hispanic |->
           IF hasEth
           THEN SumSeq([i \in 1..Len(df) |->
                          IF ~(\E k \in {"hispanic", "latino"} : Contains(Lower(df[i][eth]), k))
                          THEN 1 ELSE 0])
           ELSE 0,
         minorities |->
           SumSeq([i \in 1..Len(race) |-> IF RACE_KEYWORDS[i][1] = "White" THEN 0 ELSE race[i]])
           + hispanic]

RECURSIVE Positive(_)
Positive(pairs) ==
    IF pairs = <<>> THEN <<>>
    ELSE Opt(pairs[1][2] > 0, Leaf(pairs[1][1], StrOfNat(pairs[1][2]))) \o Positive(Tail(pairs))

\* TrainingConverter._build_demographics_section: the elements it appends to
\* the record (NumberTrained and, when positive, NumberUnderservedTrained)
build_demographics_section(dm) ==
    <<Node("NumberTrained",
           <<Leaf("Total", StrOfNat(dm.total))>>
           \o Positive(dm.simple)
           \o Opt(\E i \in 1..Len(dm.race) : dm.race[i] > 0,
                  Node("Race", Positive([i \in 1..Len(dm.race) |->
                                           <<RACE_KEYWORDS[i][1], dm.race[i]>>])))
           \o Opt(dm.hispanic > 0 \/ dm.non_hispanic > 0,
                  Node("Ethnicity",
                       Positive(<<<<"HispanicOrLatinoOrigin", dm.hispanic>>,
                                  <<"NonHispanicOrLatinoOrigin", dm.non_hispanic>>>>))))>>
    \o Opt(dm.minorities > 0,
           Node("NumberUnderservedTrained", <<Leaf("Total", StrOfNat(dm.minorities))>>))

\* the characters of identifiers in code point order, for comparing strings
\* as Python does
CodePoints ==
    " #$%&()*+,-./0123456789:;<=>?@ABCDEFGHIJKLMNOPQRSTUVWXYZ[]^_abcdefghijklmnopqrstuvwxyz{|}~"

Ord(c) == CHOOSE i \in 1..Len(CodePoints) : Char(CodePoints, i) = c

\* a < b for str
RECURSIVE StrLess(_, _)
StrLess(a, b) ==
    IF b = "" THEN FALSE
    ELSE IF a = "" THEN TRUE
    ELSE IF Char(a, 1) = Char(b, 1)
         THEN StrLess(SubSeq(a, 2, Len(a)), SubSeq(b, 2, Len(b)))
    ELSE Ord(Char(a, 1)) < Ord(Char(b, 1))

RECURSIVE SortKeys(_)
SortKeys(keys) ==
    IF keys = {} THEN <<>>
    ELSE LET k == CHOOSE k \in keys : \A o \in keys \ {k} : StrLess(k, o)
         IN  <<k>> \o SortKeys(keys \ {k})

\* df_valid.groupby(event_id_col): one group per distinct identifier, NaN
\* identifiers dropped, groups in sorted key order, rows in file order
groupby(df) ==
    LET keys == {df[i][EVENT_ID_COLUMN] : i \in 1..Len(df)} \ {"", Absent}
        order == SortKeys(keys)
    IN  [g \in 1..Len(order) |->
           [event_id |-> order[g],
            group_df |-> SelectSeq(df, LAMBDA r : r[EVENT_ID_COLUMN] = order[g])]]

\* The try body of TrainingConverter.convert (lines 79-121) for one event
build_training_record(event_id, group_df) ==
    LET first_record == group_df[1]
        title_val == get_column_value(first_record, "event_name")
        cosponsor_name == get_column_value(first_record, "cosponsor")
    IN  Node("ManagementTrainingRecord",
          <<Leaf("PartnerTrainingNumber", event_id),
            Node("Location", <<Leaf("LocationCode", DEFAULT_LOCATION_CODE)>>),
            Leaf("DateTrainingStarted",
                 format_date(get_column_value(first_record, "start_date"), DATE_INPUT_FORMATS,
                             DEFAULT_START_DATE)),
            Leaf("NumberOfSessions", "1"),
            Leaf("TotalTrainingHours", "1.5"),
            Leaf("TrainingTitle",
                 escape_xml(IF title_val = "" THEN "Training Event " \o event_id
                            ELSE title_val)),
            build_location_section(first_record)>>
          \o build_demographics_section(calculate_demographics(group_df))
          \o <<Node("TrainingTopic",
                    <<Leaf("Code", map_value(get_column_value(first_record, "training_topic"),
                                             TRAINING_TOPIC_MAPPINGS, "Technology", FALSE))>>),
               Node("TrainingPartners", <<Leaf("Code", "Women's Business Center")>>),
               Leaf("ProgramFormatType",
                    map_value(get_column_value(first_record, "event_type"),
                              PROGRAM_FORMAT_MAPPINGS, "In-person", FALSE)),
               Leaf("DollarAmountOfFees", "0"),
               Node("Language", <<Leaf("Code", DEFAULT_LANGUAGE)>>)>>
          \o Opt(cosponsor_name # "" /\ Lower(cosponsor_name) # "n/a",
                 Leaf("CosponsorsName", escape_xml(cosponsor_name))))

\* lines 40-52: read the CSV (on failure add the file_access Issue and
\* re-raise), then require the event identifier column: without it add one
\* Issue and return, nothing written
TrainingRead ==
    /\ converter = "training"
    /\ pc = "start"
    /\ IF ~readable
       THEN /\ validator' = add_issue(validator, Issue("file", "error", FILE_ACCESS, "input_file"))
            /\ pc' = "raised"
            /\ exc' = "OSError"
       ELSE IF EVENT_ID_COLUMN \notin header
       THEN /\ validator' = add_issue(validator,
                                      Issue("file", "error", MISSING_REQUIRED, EVENT_ID_COLUMN))
            /\ pc' = "returned"
            /\ UNCHANGED exc
       ELSE /\ pc' = "rows"
            /\ UNCHANGED <<validator, exc>>
    /\ UNCHANGED <<converter, readable, writable, header, rows, row_index, valid_rows, root,
                   processed_records, skipped_records, output, results, before, runs>>

\* lines 56-58: one iteration of the pre-validation loop.  The module never
\* imports data_validation, so evaluating the name raises NameError.
TrainingValidateRow ==
    /\ converter = "training"
    /\ pc = "rows"
    /\ row_index <= Len(rows)
    /\ LET v == validate_training_record(rows[row_index], row_index - 1)
       IN  IF "data_validation" \notin TrainingConverterGlobals
           THEN /\ pc' = "raised"
                /\ exc' = "NameError"
                /\ UNCHANGED <<validator, row_index, valid_rows>>
           ELSE IF v.result = "raise"
           THEN /\ validator' = add_issues(validator, v.issues)
                /\ pc' = "raised"
                /\ exc' = v.exc
                /\ UNCHANGED <<row_index, valid_rows>>
           ELSE /\ validator' = add_issues(validator, v.issues)
                /\ valid_rows' = IF v.result = "true" THEN Append(valid_rows, rows[row_index])
                                 ELSE valid_rows
                /\ row_index' = row_index + 1
                /\ UNCHANGED <<pc, exc>>
    /\ UNCHANGED <<converter, readable, writable, header, rows, root, processed_records,
                   skipped_records, output, results, before, runs>>

\* lines 60-134: without a valid row return, nothing written; else build one
\* record per event and write the document.  set_current_record_id (line 76)
\* is called outside the try block; the write (lines 128-134) has no handler.
TrainingFinish ==
    /\ converter = "training"
    /\ pc = "rows"
    /\ row_index > Len(rows)
    /\ LET groups == groupby(valid_rows)
           records == [g \in 1..Len(groups) |->
                         build_training_record(groups[g].event_id, groups[g].group_df)]
           done == [g \in 1..Len(groups) |-> TRUE]
       IN  IF valid_rows = <<>>
           THEN /\ pc' = "returned"
                /\ UNCHANGED <<root, validator, output, exc>>
           ELSE IF groups # <<>> /\ "set_current_record_id" \notin TrackerMethods
           THEN /\ pc' = "raised"
                /\ exc' = "AttributeError"
                /\ UNCHANGED <<root, validator, output>>
           ELSE /\ root' = records
                /\ validator' = [validator EXCEPT !.total_records = @ + Len(done),
                                                  !.successful_records = @ + Len(done)]
                /\ IF writable
                   THEN /\ output' = File(records)
                        /\ pc' = "returned"
                        /\ UNCHANGED exc
                   ELSE /\ pc' = "raised"
                        /\ exc' = "OSError"
                        /\ UNCHANGED output
    /\ UNCHANGED <<converter, readable, writable, header, rows, row_index, valid_rows,
                   processed_records, skipped_records, results, before, runs>>

\* the conversion runs main.py starts
Next ==
    \/ CounselingRead
    \/ CounselingRow
    \/ CounselingWrite
    \/ TrainingRead
    \/ TrainingValidateRow
    \/ TrainingFinish

Spec == Init /\ [][Next]_vars

\* ------------------------------------------------------------------------
\* The validators applied to single rows
\* ------------------------------------------------------------------------

\* a row with the cells the validators look at, every other cell empty
ValidationRow(id, last, email, zip, date, session, hours) ==
    [c \in Columns |->
        CASE c = REQUIRED_FIELD -> id
          [] c = "Last Name" -> last
          [] c = "Email" -> email
          [] c = "Mailing Zip/Postal Code" -> zip
          [] c = "Date" -> date
          [] c = "Type of Session" -> session
          [] c = "Duration (hours)" -> hours
          [] OTHER -> ""]

ValidationRows ==
    {ValidationRow(id, last, email, zip, date, session, hours) :
        id \in {"", "C1"}, last \in {"", "Doe"}, email \in {"", "jdoe", "j@doe.org"},
        zip \in {"50312", "5O312"}, date \in {"", "someday", "2023-09-30", "2024-02-29"},
        session \in {"", "Training"}, hours \in {"", "1.5", "abc"}}

InitValidate ==
    /\ converter \in {"validate_record", "validate_counseling_record"}
    /\ readable = TRUE
    /\ writable = TRUE
    /\ header = Columns
    /\ \E r \in ValidationRows : rows = <<r>>
    /\ pc = "rows"
    /\ row_index = 1
    /\ valid_rows = <<>>
    /\ root = <<>>
    /\ validator = NewTracker
    /\ processed_records = 0
    /\ skipped_records = 0
    /\ output = NoFile
    /\ exc = ""
    /\ Idle

\* What the loop of a caller does with the validator's outcome v
\* (csv_to_xml.py lines 74-82, counseling_converter.py lines 46-52): the call
\* stands outside the try block.
Validated(v) ==
    /\ validator' = add_issues(validator, v.issues)
    /\ results' = Append(results, v)
    /\ row_index' = row_index + 1
    /\ pc' = IF v.result = "raise" THEN "raised" ELSE pc
    /\ exc' = v.exc
    /\ skipped_records' = IF v.result = "false" THEN skipped_records + 1 ELSE skipped_records
    /\ UNCHANGED <<converter, readable, writable, header, rows, valid_rows, root,
                   processed_records, output, before, runs>>

\* csv_to_xml.create_xml_from_csv calls validate_record on a row
ValidateRecord ==
    /\ converter = "validate_record"
    /\ pc = "rows"
    /\ row_index <= Len(rows)
    /\ Validated(validate_record(rows[row_index], row_index,
                                 RowGet(rows[row_index], REQUIRED_FIELD, RowId(row_index))))

\* CounselingConverter.convert calls validate_counseling_record on a row
ValidateCounselingRecord ==
    /\ converter = "validate_counseling_record"
    /\ pc = "rows"
    /\ row_index <= Len(rows)
    /\ Validated(validate_counseling_record(rows[row_index], row_index))

NextValidate ==
    \/ ValidateRecord
    \/ ValidateCounselingRecord

SpecValidate == InitValidate /\ [][NextValidate]_vars

\* ------------------------------------------------------------------------
\* Post-hoc fixer (src/xml-validator.py)
\* ------------------------------------------------------------------------

\* the order list with Media and Internet exchanged
client_intake_order_exchanged ==
    <<"Race", "Ethnicity", "Sex", "Disability", "MilitaryStatus",
      "BranchOfService", "Internet", "Media", "CurrentlyInBusiness",
      "CurrentlyExporting", "CompanyName", "BusinessType",
      "BusinessOwnership", "ConductingBusinessOnline",
      "ClientIntake_Certified8a", "Employee_Owned", "TotalNumberOfEmployees",
      "NumberOfEmployeesInExportingBusiness", "ClientAnnualIncomePart2",
      "LegalEntity", "Rural_vs_Urban", "FIPS_Code", "CounselingSeeking",
      "ExportCountries">>

\* client_intake_order of fix_client_intake_element_order
client_intake_order ==
    <<"Race", "Ethnicity", "Sex", "Disability", "MilitaryStatus",
      "BranchOfService", "Media", "Internet", "CurrentlyInBusiness",
      "CurrentlyExporting", "CompanyName", "BusinessType",
      "BusinessOwnership", "ConductingBusinessOnline",
      "ClientIntake_Certified8a", "Employee_Owned", "TotalNumberOfEmployees",
      "NumberOfEmployeesInExportingBusiness", "ClientAnnualIncomePart2",
      "LegalEntity", "Rural_vs_Urban", "FIPS_Code", "CounselingSeeking",
      "ExportCountries">>

\* the keys of the elements dictionary in insertion order: each tag once, in
\* the order of its first child
RECURSIVE DictKeys(_, _)
DictKeys(kids, seen) ==
    IF kids = <<>> THEN <<>>
    ELSE IF kids[1].tag \in seen THEN DictKeys(Tail(kids), seen)
    ELSE <<kids[1].tag>> \o DictKeys(Tail(kids), seen \cup {kids[1].tag})

\* the children appended for the tags of one loop, tag by tag
RECURSIVE AppendByTag(_, _)
AppendByTag(kids, tags) ==
    IF tags = <<>> THEN <<>>
    ELSE SelectSeq(kids, LAMBDA e : e.tag = tags[1]) \o AppendByTag(kids, Tail(tags))

\* reorder_elements with the last loop run over the children instead of over
\* the dictionary: the remaining children keep their document order
reorder_elements_in_document_order(kids, element_order) ==
    AppendByTag(kids, element_order)
    \o SelectSeq(kids, LAMBDA e : \A i \in 1..Len(element_order) : element_order[i] # e.tag)

\* a variant of reorder_elements without its last loop: the children whose
\* tags are not in the order list are not put back
reorder_elements_listed_only(kids, element_order) == AppendByTag(kids, element_order)

\* reorder_elements(parent, element_order): the children of parent afterwards
reorder_elements(kids, element_order) ==
    AppendByTag(kids, element_order)
    \o AppendByTag(kids,
                   SelectSeq(DictKeys(kids, {}),
                             LAMBDA t : \A i \in 1..Len(element_order) : element_order[i] # t))

\* add_missing_required_elements without the find(tag) test
add_missing_required_elements_untested(kids) ==
    Append(kids, Leaf("CurrentlyInBusiness", "No"))

\* add_missing_required_elements(client_intake, record_id): the children of
\* client_intake afterwards
add_missing_required_elements(kids) ==
    IF \E i \in 1..Len(kids) : kids[i].tag = "CurrentlyInBusiness" THEN kids
    ELSE Append(kids, Leaf("CurrentlyInBusiness", "No"))

\* the loop body of fix_client_intake_element_order for one child of the root:
\* in a CounselingRecord, the first ClientIntake child is fixed
FixRecord(record, add_missing_elements_flag) ==
    With({i \in 1..Len(record.kids) : record.kids[i].tag = "ClientIntake"}, LAMBDA at :
      IF record.tag # "CounselingRecord" \/ at = {} THEN record
      ELSE With(CHOOSE i \in at : \A j \in at : i <= j, LAMBDA i :
             [record EXCEPT !.kids[i].kids =
                reorder_elements(IF add_missing_elements_flag
                                 THEN add_missing_required_elements(@) ELSE @,
                                 client_intake_order)]))

\* fix_client_intake_element_order(xml_file, None, add_missing_elements_flag):
\* the children of the root element written back
fix_client_intake_element_order(children, add_missing_elements_flag) ==
    [r \in 1..Len(children) |-> FixRecord(children[r], add_missing_elements_flag)]

\* ------------------------------------------------------------------------
\* The fixer run on documents
\* ------------------------------------------------------------------------

MaxKids == 3
MaxRuns == 2

\* tags of ClientIntake children: three the order list knows, two it does not
FixTags == {"Sex", "Race", "CurrentlyInBusiness", "X", "Y"}

\* a ClientIntake child list; the text of each child is its position
KidLists ==
    UNION {{[i \in 1..n |-> Leaf(t[i], StrOfNat(i))] : t \in [1..n -> FixTags]} : n \in 0..MaxKids}

\* documents: one CounselingRecord with a ClientIntake, or with two
Documents ==
    {<<Node("CounselingRecord",
            <<Leaf("PartnerClientNumber", "C1"), Node("ClientIntake", k)>>)>> : k \in KidLists}
    \cup
    {<<Node("CounselingRecord", <<Node("ClientIntake", k), Node("ClientIntake", k)>>),
       Node("Other", <<Node("ClientIntake", k)>>)>> :
        k \in {l \in KidLists : Len(l) = 2}}

InitFix ==
    /\ converter = "fixer"
    /\ readable = TRUE
    /\ writable = TRUE
    /\ header = {}
    /\ rows = <<>>
    /\ pc = "start"
    /\ row_index = 1
    /\ valid_rows = <<>>
    /\ root = <<>>
    /\ validator = NewTracker
    /\ processed_records = 0
    /\ skipped_records = 0
    /\ \E d \in Documents : output = File(d)
    /\ exc = ""
    /\ Idle

\* one run of fix_client_intake_element_order on the file, in place, with or
\* without --add-missing
FixRun ==
    /\ converter = "fixer"
    /\ Len(runs) < MaxRuns
    /\ \E add_missing_elements_flag \in BOOLEAN :
          /\ output' = File(fix_client_intake_element_order(output.root,
                                                            add_missing_elements_flag))
          /\ runs' = Append(runs, add_missing_elements_flag)
    /\ before' = output
    /\ UNCHANGED <<converter, readable, writable, header, rows, pc, row_index, valid_rows,
                   root, validator, processed_records, skipped_records, exc, results>>

NextFix == FixRun

SpecFix == InitFix /\ [][NextFix]_vars

\* ------------------------------------------------------------------------
\* The section builders applied to single rows
\* ------------------------------------------------------------------------

\* rows to build from: every optional element, none, a percentage that does
\* not parse, and required companions missing
BaseRows ==
    {FullRow,
     SampleRow("C1", "", "50"),
     [FullRow EXCEPT ![PCT_FEMALE] = "abc"],
     [FullRow EXCEPT !["Branch Of Service"] = "", !["Legal Entity of Business"] = "",
                     !["FIPS_Code"] = "",
                     !["Nature of the Counseling Seeking - Other Detail"] = ""]}

\* the columns the section builders read
BuilderColumns == CounselingColumns \ {REQUIRED_FIELD, "Business Ownership - % Female"}

\* the largest number of rows of a training frame
MaxGroup == 3

\* a row of the training CSV: the event identifier, the demographic cells
\* (gender, race, ethnicity, disability, military status) and the location
\* cells (city, state, zip); every other column is there with an empty cell
TrainingRow(ev, demo, loc) ==
    [c \in Columns |->
        CASE c = EVENT_ID_COLUMN -> ev
          [] c = "Gender" -> demo[1]
          [] c = "Race" -> demo[2]
          [] c = "Ethnicity" -> demo[3]
          [] c = "Disabilities" -> demo[4]
          [] c = "Military Status" -> demo[5]
          [] c = "City" -> loc[1]
          [] c = "State/Province" -> loc[2]
          [] c = "Zip/Postal Code" -> loc[3]
          [] OTHER -> ""]

\* the frames df_valid of convert (line 64) to group and build from: frames
\* of one event whose first row varies in demographic and location cells
\* (the third demographic row has cells that spell the names of their own
\* columns), and frames that vary in the event identifiers, empty ones among
\* them
TrainingFrames ==
    LET Demos == {<<"Female", "Asian", "Hispanic", "Yes", "Veteran">>,
                  <<"Male", "", "", "", "">>,
                  <<"Gender", "Race", "Ethnicity", "Disabilities", "Military Status">>,
                  <<"", "White; Black", "Non-Hispanic", "No", "Reserve">>}
        Home == <<"Ames", "IA", "50010">>
        Locs == {Home, <<"Ames", "", "50010">>, <<"", "IA", "50010">>,
                 <<"Ames", "IA", "5001">>, <<"Ames", "IA", "Zip 50010-1234">>,
                 <<"", "", "">>, <<"A&B", "Iowa", "50010">>}
        Male == <<"Male", "", "", "", "">>
        Firsts == {TrainingRow("E1", d, Home) : d \in Demos}
                  \cup {TrainingRow("E1", Male, l) : l \in Locs}
        Others == {TrainingRow("E1", d, Home) : d \in Demos}
        Keyed == {TrainingRow(ev, Male, Home) : ev \in {"", "E1", "E2"}}
    IN  {<<first>> \o tail :
            first \in Firsts, tail \in UNION {[1..k -> Others] : k \in 0..(MaxGroup - 1)}}
        \cup UNION {[1..k -> Keyed] : k \in 1..MaxGroup}

\* A base row, the same row from a file whose header lacks one column, and the
\* same row with that cell empty; or one of the case rows; or a training frame
InitBuild ==
    /\ readable = TRUE
    /\ writable = TRUE
    /\ header = Columns
    /\ \/ /\ converter = "builder"
          /\ \/ \E base \in BaseRows, c \in BuilderColumns :
                   rows = <<base, [base EXCEPT ![c] = Absent], [base EXCEPT ![c] = ""]>>
             \/ \E r \in CaseRows : rows = <<r>>
       \/ /\ converter = "training_builder"
          /\ rows \in TrainingFrames
    /\ pc = "rows"
    /\ row_index = 1
    /\ valid_rows = <<>>
    /\ root = <<>>
    /\ validator = NewTracker
    /\ processed_records = 0
    /\ skipped_records = 0
    /\ output = NoFile
    /\ exc = ""
    /\ Idle

\* the try statement of CounselingConverter.convert (lines 54-71) on the next
\* row, as for a row the validator has accepted without an Issue: the record
\* the try body built is kept aside in results, and the root, the counter
\* and the tracker change as in the row loop
BuildRecord ==
    /\ converter = "builder"
    /\ row_index <= Len(rows)
    /\ results' = Append(results,
                         build_counseling_record(
                           rows[row_index],
                           RowGet(rows[row_index], REQUIRED_FIELD, RowId(row_index))))
    /\ CounselingRowDone(
         RowGet(rows[row_index], REQUIRED_FIELD, RowId(row_index)),
         Outcome("true", "", <<>>),
         validator,
         build_counseling_record(rows[row_index],
                                 RowGet(rows[row_index], REQUIRED_FIELD, RowId(row_index))))
    /\ UNCHANGED <<converter, readable, writable, header, rows, valid_rows, output, before,
                   runs>>

\* lines 64-121 of TrainingConverter.convert: group the frame by the event
\* identifier and build one record per group
BuildTrainingRecords ==
    /\ converter = "training_builder"
    /\ row_index = 1
    /\ results' = With(groupby(rows), LAMBDA event_groups :
                     [g \in 1..Len(event_groups) |->
                        Built(build_training_record(event_groups[g].event_id,
                                                    event_groups[g].group_df), <<>>, "")])
    /\ row_index' = Len(rows) + 1
    /\ UNCHANGED <<converter, readable, writable, header, rows, pc, valid_rows, root,
                   validator, processed_records, skipped_records, output, exc, before, runs>>

NextBuild == BuildRecord \/ BuildTrainingRecords

SpecBuild == InitBuild /\ [][NextBuild]_vars

\* ------------------------------------------------------------------------
\* Properties of the conversion runs (Spec)
\* ------------------------------------------------------------------------

\* the rows the counseling loop has gone through
DoneRows == IF converter = "counseling" THEN 1..(row_index - 1) ELSE {}

\* the Issues recorded under a record id
IssuesOf(record_id) ==
    SelectSeq(validator.issues, LAMBDA i : i.record_id = record_id)

\* the PartnerClientNumber texts of the records of a document
ClientNumbers(children) ==
    {children[k].kids[1].text : k \in {j \in 1..Len(children) : children[j].kids # <<>>}}

\* C1: when the builders raise on a validated counseling row, the step of
\* the loop adds exactly one error/processing_error Issue for that record,
\* counts the record as processed without success, and goes on to the next
\* row instead of leaving convert.
C1_BuilderExceptionStaysInRow ==
    [][(/\ converter = "counseling"
        /\ pc = "rows"
        /\ row_index <= Len(rows)
        /\ Truthy(rows[row_index][REQUIRED_FIELD])
        /\ build_counseling_record(rows[row_index], rows[row_index][REQUIRED_FIELD]).exc # "")
       => /\ pc' = "rows"
          /\ row_index' = row_index + 1
          /\ validator'.total_records = validator.total_records + 1
          /\ validator'.successful_records = validator.successful_records
          /\ validator'.issue_counts[<<"error", PROCESSING_ERROR>>]
               = validator.issue_counts[<<"error", PROCESSING_ERROR>>] + 1]_vars

\* C2: a counseling row whose Contact ID is empty or absent yields no
\* CounselingRecord, neither in the tree nor in the written document, and
\* exactly one Issue under its row id, the error/missing_required_field
\* Issue for Contact ID.
C2_EmptyIdRowSkippedWithOneIssue ==
    \A i \in DoneRows :
        ~Truthy(rows[i][REQUIRED_FIELD]) =>
            /\ IssuesOf(RowId(i)) = <<Issue(RowId(i), "error", MISSING_REQUIRED, REQUIRED_FIELD)>>
            /\ ClientNumbers(root) \cap {"", RowId(i)} = {}
            /\ ClientNumbers(output.root) \cap {"", RowId(i)} = {}
            /\ Len(root) <= Cardinality({j \in DoneRows : Truthy(rows[j][REQUIRED_FIELD])})

\* a counseling run over two rows without identifier has returned: both
\* skipped, both reported, an empty document written
C2_Witness ==
    /\ converter = "counseling"
    /\ pc = "returned"
    /\ Len(rows) = 2
    /\ skipped_records = 2
    /\ Len(validator.issues) = 2
    /\ output = File(<<>>)

\* C3: a run of convert that returns has written the output file, and a run
\* that ends without an output file has raised on reading the input or on
\* writing the output.
C3_ReturnedRunHasWritten ==
    /\ pc = "returned" => output.written
    /\ (pc = "raised" /\ ~output.written) => (exc = "OSError" /\ (~readable \/ ~writable))

C5_KeyedRowIsValid ==
    \A i \in 1..Len(results) :
        Truthy(rows[i][REQUIRED_FIELD]) => results[i].result = "true"

\* C6: the validators never raise: every call returns a boolean.
C6_ValidatorsReturn ==
    /\ pc # "raised"
    /\ \A i \in 1..Len(results) : results[i].result \in {"true", "false"} /\ results[i].exc = ""

\* ------------------------------------------------------------------------
\* Properties of the builders (SpecBuild)
\* ------------------------------------------------------------------------

\* C7: a row from a file whose header lacks a column and the same row with
\* that cell empty build the same record and the same Issues.
C7_AbsentColumnLikeEmptyCell ==
    Len(results) = 3 => results[2] = results[3]

\* the children of the ClientIntake element of a built record
IntakeOf(el) ==
    With(SelectSeq(el.kids, LAMBDA k : k.tag = "ClientIntake"), LAMBDA found :
      IF found = <<>> THEN <<>> ELSE found[1].kids)

\* the position of a tag in client_intake_order, 0 for a tag not in it
Rank(tag) ==
    With({i \in 1..Len(client_intake_order) : client_intake_order[i] = tag}, LAMBDA at :
      IF at = {} THEN 0 ELSE CHOOSE i \in at : TRUE)

\* C8: the children of a built ClientIntake are tags of the fixer's order
\* list in non-decreasing position, and reorder_elements leaves them as they
\* are.
C8_BuiltIntakeInCanonicalOrder ==
    \A r \in 1..Len(results) :
        With(IntakeOf(results[r].el), LAMBDA kids :
          /\ \A i \in 1..Len(kids) : Rank(kids[i].tag) > 0
          /\ \A i, j \in 1..Len(kids) : i < j => Rank(kids[i].tag) <= Rank(kids[j].tag)
          /\ reorder_elements(kids, client_intake_order) = kids)

\* a built ClientIntake with every optional child, Media and Internet among them
C8_Witness ==
    \E r \in 1..Len(results) :
        With(IntakeOf(results[r].el), LAMBDA kids :
          /\ Len(kids) = 22
          /\ \E i \in 1..Len(kids) : kids[i].tag = "Media"
          /\ \E i \in 1..Len(kids) : kids[i].tag = "Internet")

\* ------------------------------------------------------------------------
\* Properties of the fixer (SpecFix)
\* ------------------------------------------------------------------------

\* the index of the first ClientIntake child of a record, 0 if it has none
FirstIntake(record) ==
    With({i \in 1..Len(record.kids) : record.kids[i].tag = "ClientIntake"}, LAMBDA at :
      IF at = {} THEN 0 ELSE CHOOSE i \in at : \A j \in at : i <= j)

\* the ClientIntake child lists the last run went over: pairs of the children
\* before and after it
FixedPairs ==
    {<<before.root[r].kids[FirstIntake(before.root[r])].kids,
       output.root[r].kids[FirstIntake(before.root[r])].kids>> :
        r \in {q \in 1..Len(before.root) :
                  /\ before.root[q].tag = "CounselingRecord"
                  /\ FirstIntake(before.root[q]) > 0}}

\* the last run was made without --add-missing
ReorderedOnly == runs # <<>> /\ ~runs[Len(runs)]

\* the last run was made with --add-missing
AddedMissing == runs # <<>> /\ runs[Len(runs)]

Tags(kids) == [i \in 1..Len(kids) |-> kids[i].tag]

\* b holds the children of a, each once
SameChildren(a, b) ==
    /\ Len(a) = Len(b)
    /\ \A i \in 1..Len(a) : \E j \in 1..Len(b) : b[j] = a[i]

\* where a child stood in a
Pos(a, e) == CHOOSE i \in 1..Len(a) : a[i] = e

\* where the first child with this tag stood in a
FirstPos(a, tag) ==
    CHOOSE i \in 1..Len(a) : a[i].tag = tag /\ \A j \in 1..(i - 1) : a[j].tag # tag

\* sort key of a child: listed tags by their place in the order list, then
\* the other tags by first appearance
GroupKey(a, e) ==
    IF Rank(e.tag) > 0 THEN Rank(e.tag) ELSE Len(client_intake_order) + FirstPos(a, e.tag)

\* sort key of a child: listed tags by their place in the order list, then
\* every other child alike
ListedKey(e) ==
    IF Rank(e.tag) > 0 THEN Rank(e.tag) ELSE Len(client_intake_order) + 1

\* b is a sorted stably by the key
StablySorted(a, b, key(_)) ==
    \A i, j \in 1..Len(b) :
        i < j => \/ key(b[i]) < key(b[j])
                 \/ key(b[i]) = key(b[j]) /\ Pos(a, b[i]) < Pos(a, b[j])

\* C9 (as the code has it): reorder_elements keeps every child, puts the
\* listed tags first in the order of the list, and then the children with
\* other tags grouped by tag, the tags in order of first appearance, children
\* of one tag in their original order (X, Y, X becomes X, X, Y).
C9_UnlistedChildrenGroupedByTag ==
    ReorderedOnly =>
        \A p \in FixedPairs :
            /\ SameChildren(p[1], p[2])
            /\ StablySorted(p[1], p[2], LAMBDA e : GroupKey(p[1], e))

\* C9 (as stated): reorder_elements keeps every child, puts the listed tags
\* first in the order of the list, and then the children with other tags in
\* their original relative order (X, Y, X stays X, Y, X).
C9_UnlistedChildrenKeepOrder ==
    ReorderedOnly =>
        \A p \in FixedPairs :
            /\ SameChildren(p[1], p[2])
            /\ StablySorted(p[1], p[2], LAMBDA e : ListedKey(e))

\* a run went over a ClientIntake whose children were Sex, X, Y, X in some
\* interleaving with X, Y, X in that order
C9_Witness ==
    /\ runs = <<FALSE>>
    /\ \E p \in FixedPairs :
          /\ Tags(p[1]) = <<"X", "Y", "X">>
          /\ Tags(p[2]) = <<"X", "X", "Y">>

\* the number of CurrentlyInBusiness children
InBusinessCount(kids) == Len(SelectSeq(kids, LAMBDA k : k.tag = "CurrentlyInBusiness"))

MaxCalls == 3

\* the Issues callers add: two records, every severity, three categories
CallIssues ==
    {Issue(record_id, severity, category, "record") :
        record_id \in {"C1", "Row_2"}, severity \in Severities,
        category \in {MISSING_REQUIRED, INVALID_FORMAT, PROCESSING_ERROR}}

\* a fresh ValidationTracker; results is the log of the calls made on it
InitTracker ==
    /\ converter = "tracker"
    /\ readable = TRUE
    /\ writable = TRUE
    /\ header = {}
    /\ rows = <<>>
    /\ pc = "start"
    /\ row_index = 1
    /\ valid_rows = <<>>
    /\ root = <<>>
    /\ validator = NewTracker
    /\ processed_records = 0
    /\ skipped_records = 0
    /\ output = NoFile
    /\ exc = ""
    /\ Idle

\* a caller calls validator.add_issue(...)
TrackerAddIssue ==
    /\ converter = "tracker"
    /\ Len(results) < MaxCalls
    /\ \E issue \in CallIssues :
          /\ validator' = add_issue(validator, issue)
          /\ results' = Append(results, [call |-> "add_issue", issue |-> issue])
    /\ before' = validator
    /\ UNCHANGED <<converter, readable, writable, header, rows, pc, row_index, valid_rows,
                   root, processed_records, skipped_records, output, exc, runs>>

\* a caller calls validator.record_processed(success)
TrackerRecordProcessed ==
    /\ converter = "tracker"
    /\ Len(results) < MaxCalls
    /\ \E success \in BOOLEAN :
          /\ validator' = record_processed(validator, success)
          /\ results' = Append(results, [call |-> "record_processed", success |-> success])
    /\ before' = validator
    /\ UNCHANGED <<converter, readable, writable, header, rows, pc, row_index, valid_rows,
                   root, processed_records, skipped_records, output, exc, runs>>

NextTracker ==
    \/ TrackerAddIssue
    \/ TrackerRecordProcessed

SpecTracker == InitTracker /\ [][NextTracker]_vars

\* the Issues of the add_issue calls of a call log, in call order
RECURSIVE IssuesAdded(_)
IssuesAdded(log) ==
    IF log = <<>> THEN <<>>
    ELSE (IF log[1].call = "add_issue" THEN <<log[1].issue>> ELSE <<>>)
         \o IssuesAdded(Tail(log))

\* the sum of the counters of a tracker
RECURSIVE SumCounts(_, _)
SumCounts(counts, keys) ==
    IF keys = {} THEN 0
    ELSE With(CHOOSE k \in keys : TRUE, LAMBDA k :
           counts[k] + SumCounts(counts, keys \ {k}))

\* C11: the tracker is append-only: after any sequence of add_issue and
\* record_processed calls the Issue list is exactly the Issues of the
\* add_issue calls in call order, the list as it stood before the last call
\* is a prefix of it and is one shorter exactly when that call was add_issue,
\* and the counters sum to the number of Issues, each counter being the
\* number of Issues of its severity and category.
C11_TrackerAppendOnly ==
    converter = "tracker" =>
        /\ validator.issues = IssuesAdded(results)
        /\ results # <<>> =>
              /\ SubSeq(validator.issues, 1, Len(before.issues)) = before.issues
              /\ Len(validator.issues)
                   = Len(before.issues)
                     + (IF results[Len(results)].call = "add_issue" THEN 1 ELSE 0)
        /\ SumCounts(validator.issue_counts, Severities \X Categories)
             = Len(validator.issues)
        /\ \A k \in Severities \X Categories :
              validator.issue_counts[k]
                = Len(SelectSeq(validator.issues,
                                LAMBDA i : i.severity = k[1] /\ i.category = k[2]))

\* three calls: an Issue, a processed record, another Issue
C11_Witness ==
    /\ converter = "tracker"
    /\ Len(results) = 3
    /\ results[1].call = "add_issue"
    /\ results[2].call = "record_processed"
    /\ results[3].call = "add_issue"
    /\ results[3].issue # results[1].issue
    /\ validator.total_records = 1

\* ------------------------------------------------------------------------
\* Properties of single builder rules (SpecBuild, Spec)
\* ------------------------------------------------------------------------

\* the children of el with this tag
KidsOf(el, tag) == SelectSeq(el.kids, LAMBDA k : k.tag = tag)

\* the Issues of a list recorded for a field of a record
FieldIssues(issues, record_id, field_name) ==
    SelectSeq(issues, LAMBDA i : i.record_id = record_id /\ i.field_name = field_name)

\* a counseling run over a file of one row with an identifier has ended
OneRowRunEnded ==
    /\ converter = "counseling"
    /\ readable
    /\ writable
    /\ Len(rows) = 1
    /\ Truthy(rows[1][REQUIRED_FIELD])
    /\ pc \in {"returned", "raised"}

\* the record of the one row is in the written document and was counted as
\* processed with success
OneRowEmitted ==
    /\ pc = "returned"
    /\ Len(output.root) = 1
    /\ output.root[1].kids[1] = Leaf("PartnerClientNumber", rows[1][REQUIRED_FIELD])
    /\ validator.total_records = 1
    /\ validator.successful_records = 1

\* the LegalEntity rule on a ClientIntake (its children) built from row with
\* the Issues recorded while building
LegalEntityRule(row, record_id, intake, issues) ==
    With(SelectSeq(intake, LAMBDA k : k.tag = "LegalEntity"), LAMBDA le :
      /\ (le # <<>>) <=> (Lower(RowGet(row, "Currently In Business?", "No")) = "yes")
      /\ Len(le) <= 1
      /\ le # <<>> => KidsOf(le[1], "Code") # <<>>
      /\ (/\ le # <<>>
          /\ split_multi_value(RowGet(row, "Legal Entity of Business", "")) = <<>>
          /\ Strip(RowGet(row, "Other legal entity (specify)", "")) = "")
         => /\ le[1].kids = <<Leaf("Code", "Other")>>
            /\ FieldIssues(issues, record_id, "LegalEntity")
                 = <<Issue(record_id, "error", MISSING_REQUIRED, "LegalEntity")>>)

\* C12 (the builder alone): whenever the ClientIntake builder runs to its
\* end, LegalEntity is there if and only if the business status is 'yes' in
\* any letter case, it has a Code child, and with neither code nor other text
\* its only child is Code 'Other' and one error/missing_required_field Issue
\* for LegalEntity was recorded.
LegalEntityRuleOfBuilder ==
    converter = "builder" =>
        \A r \in 1..Len(results) :
            results[r].exc = "" =>
                LegalEntityRule(rows[r], rows[r][REQUIRED_FIELD],
                                IntakeOf(results[r].el), results[r].issues)

\* a row in business without legal entity cells was built
LegalEntityRuleOfBuilder_Witness ==
    /\ converter = "builder"
    /\ \E r \in 1..Len(results) :
          /\ results[r].exc = ""
          /\ Lower(RowGet(rows[r], "Currently In Business?", "No")) = "yes"
          /\ FieldIssues(results[r].issues, rows[r][REQUIRED_FIELD], "LegalEntity") # <<>>

\* C12: a counseling run over a row emits LegalEntity if and only if
\* 'Currently In Business?' is 'yes' in any letter case, always with a Code
\* child; in business with neither legal-entity code nor other text the
\* single Code is 'Other', exactly one error/missing_required_field Issue
\* for LegalEntity is recorded, and the record is emitted and counted as
\* successful.
C12_LegalEntityWhenInBusiness ==
    (OneRowRunEnded /\ rows[1][PCT_FEMALE] = "50") =>
        /\ OneRowEmitted
        /\ LegalEntityRule(rows[1], rows[1][REQUIRED_FIELD],
                           IntakeOf(output.root[1]), validator.issues)

\* the text of the element reached from el by the first child of each tag
RECURSIVE TextAt(_, _)
TextAt(el, path) ==
    IF path = <<>> THEN el.text ELSE TextAt(KidsOf(el, path[1])[1], Tail(path))

\* the text reads as a number greater than 0
IsPositiveNumber(text) ==
    /\ text # ""
    /\ With(ParseFloat(text), LAMBDA n :
         n.ok /\ n.sp # "nan" /\ ~n.neg /\ ~NumIsZero(n))

\* the builds that ran to their end: indices into results
Emitted == {r \in 1..Len(results) : converter = "builder" /\ results[r].exc = ""}

\* C13: in every emitted counseling record whose emitted SessionType is not
\* Prepare Only, Training or Update Only, CounselingHours/Contact is a number
\* greater than 0: '0.5' when the cleaned 'Duration (hours)' is empty
\* (blank or unparsable), zero or negative, the cleaned value otherwise.
C13_ContactHoursPositive ==
    \A r \in Emitted :
        With(clean_numeric(RowGet(rows[r], "Duration (hours)", "0")), LAMBDA cleaned :
        With(TextAt(results[r].el, <<"CounselorRecord", "CounselingHours", "Contact">>),
             LAMBDA contact :
          TextAt(results[r].el, <<"CounselorRecord", "SessionType">>)
              \notin NO_CONTACT_HOUR_SESSION_TYPES
          => /\ IsPositiveNumber(contact)
             /\ contact = IF IsPositiveNumber(cleaned) THEN cleaned ELSE "0.5"))

\* C14: the emitted SessionType is always one of VALID_SESSION_TYPES: a raw
\* 'Update' becomes 'Update Only' without Issue, a raw value that is valid
\* after trimming is emitted (trimmed) without Issue, and any other raw value
\* is replaced by the default with exactly one warning/invalid_value Issue
\* for SessionType.
C14_SessionTypeInEnumeration ==
    \A r \in Emitted :
        With(Strip(RowGet(rows[r], "Type of Session", DEFAULT_SESSION_TYPE)), LAMBDA raw :
        With(TextAt(results[r].el, <<"CounselorRecord", "SessionType">>), LAMBDA session :
        With(FieldIssues(results[r].issues, rows[r][REQUIRED_FIELD], "SessionType"),
             LAMBDA noted :
          /\ session \in VALID_SESSION_TYPES
          /\ Len(KidsOf(KidsOf(results[r].el, "CounselorRecord")[1], "SessionType")) = 1
          /\ raw = "Update" => (session = "Update Only" /\ noted = <<>>)
          /\ raw \in VALID_SESSION_TYPES => (session = raw /\ noted = <<>>)
          /\ raw \notin VALID_SESSION_TYPES \cup {"Update"} =>
                /\ session = DEFAULT_SESSION_TYPE
                /\ noted = <<Issue(rows[r][REQUIRED_FIELD], "warning", INVALID_VALUE,
                                   "SessionType")>>)))

\* a row with an unknown session type was built: defaulted and noted
C14_Witness ==
    \E r \in Emitted :
        /\ rows[r]["Type of Session"] = "Bogus"
        /\ TextAt(results[r].el, <<"CounselorRecord", "SessionType">>) = "Telephone"
        /\ FieldIssues(results[r].issues, rows[r][REQUIRED_FIELD], "SessionType") # <<>>

\* the values a multi-value cell supplies: its items between semicolons,
\* trimmed, the empty ones left out; none for a blank or 'nan' cell
SuppliedValues(raw) ==
    IF Strip(raw) = "" \/ Lower(raw) = "nan" THEN <<>>
    ELSE SelectSeq([i \in 1..Len(Split(raw, ";")) |-> Strip(Split(raw, ";")[i])],
                   LAMBDA item : item # "")

\* C15: the Race element of every emitted ClientIntake has at least one Code
\* child (and no other child): without supplied race values it is the single
\* Code 'Prefer not to say' and exactly one warning/missing_field Issue for
\* Race is recorded; otherwise one Code per supplied value in input order and
\* no Issue for Race.
C15_RaceHasCode ==
    converter = "builder" =>
        \A r \in 1..Len(results) :
            With(SuppliedValues(RowGet(rows[r], "Race", "")), LAMBDA supplied :
            With(SelectSeq(IntakeOf(results[r].el), LAMBDA k : k.tag = "Race"), LAMBDA race :
            With(FieldIssues(results[r].issues, rows[r][REQUIRED_FIELD], "Race"),
                 LAMBDA noted :
              /\ Len(race) = 1
              /\ race[1].kids # <<>>
              /\ supplied = <<>> =>
                    /\ race[1].kids = <<Leaf("Code", "Prefer not to say")>>
                    /\ noted = <<Issue(rows[r][REQUIRED_FIELD], "warning", MISSING_FIELD,
                                       "Race")>>
              /\ supplied # <<>> =>
                    /\ race[1].kids = [i \in 1..Len(supplied) |-> Leaf("Code", supplied[i])]
                    /\ noted = <<>>)))

\* built: a row whose race cell holds only a delimiter, defaulted and noted
C15_Witness ==
    /\ converter = "builder"
    /\ \E r \in 1..Len(results) :
          /\ rows[r]["Race"] = ";"
          /\ KidsOf(results[r].el, "ClientIntake")[1].kids[1]
               = Node("Race", <<Leaf("Code", "Prefer not to say")>>)
          /\ Len(FieldIssues(results[r].issues, rows[r][REQUIRED_FIELD], "Race")) = 1

\* the ZIP rule on a ClientRequest element built from row with the Issues
\* recorded while building
ZipRule(row, record_id, client_request, issues) ==
    With(Strip(RowGet(row, "Mailing Zip/Postal Code", "")), LAMBDA cell :
    With(Len(cell) >= 5 /\ \A i \in 1..5 : IsDigit(Char(cell, i)), LAMBDA leading :
      /\ Len(KidsOf(KidsOf(client_request, "AddressPart1")[1], "ZipCode")) = 1
      /\ TextAt(client_request, <<"AddressPart1", "ZipCode">>)
           = IF leading THEN SubSeq(cell, 1, 5) ELSE ""
      /\ FieldIssues(issues, record_id, "Mailing Zip/Postal Code")
           = IF cell # "" /\ ~leading
             THEN <<Issue(record_id, "warning", INVALID_FORMAT, "Mailing Zip/Postal Code")>>
             ELSE <<>>))

\* C16 (the builder alone): the ClientRequest builder always emits one
\* AddressPart1/ZipCode, the leading five digits of the trimmed cell or the
\* empty string, with one warning/invalid_format Issue exactly when the cell
\* is not blank and does not start with five digits.
ZipRuleOfBuilder ==
    converter = "builder" =>
        \A r \in 1..Len(results) :
            ZipRule(rows[r], rows[r][REQUIRED_FIELD],
                    KidsOf(results[r].el, "ClientRequest")[1], results[r].issues)

\* built: a row whose ZIP cell has a letter for a digit
ZipRuleOfBuilder_Witness ==
    /\ converter = "builder"
    /\ \E r \in 1..Len(results) :
          /\ rows[r]["Mailing Zip/Postal Code"] = "5O312"
          /\ TextAt(results[r].el, <<"ClientRequest", "AddressPart1", "ZipCode">>) = ""

\* C16: a counseling run over a row always emits AddressPart1/ZipCode, the
\* leading five digits of the trimmed ZIP cell or the empty string, records
\* a warning/invalid_format Issue exactly when the cell is not blank and has
\* no leading five digits, and in every case builds the record and counts it
\* as successful.
C16_ZipCodeAlwaysEmitted ==
    (OneRowRunEnded /\ rows[1][PCT_FEMALE] = "50") =>
        /\ OneRowEmitted
        /\ ZipRule(rows[1], rows[1][REQUIRED_FIELD],
                   KidsOf(output.root[1], "ClientRequest")[1], validator.issues)

\* ------------------------------------------------------------------------
\* Properties of the training records
\* ------------------------------------------------------------------------

\* the event identifiers of the rows, the empty ones left out
EventIds == {rows[i][EVENT_ID_COLUMN] : i \in 1..Len(rows)} \ {"", Absent}

\* the rows of an event, in file order
RowsOf(event_id) == SelectSeq(rows, LAMBDA r : r[EVENT_ID_COLUMN] = event_id)

\* a training frame has been grouped and built
FrameBuilt == converter = "training_builder" /\ row_index > 1

\* the record built for an event
RecordOf(event_id) ==
    results[CHOOSE g \in 1..Len(results) :
              TextAt(results[g].el, <<"PartnerTrainingNumber">>) = event_id].el

\* C17 (grouping alone): grouping a frame and building from it gives exactly
\* one ManagementTrainingRecord per distinct non-empty event identifier, and
\* a row with an empty identifier is in no group: each record's total counts
\* the rows of its event only.
GroupingRuleOfBuilder ==
    FrameBuilt =>
        /\ Len(results) = Cardinality(EventIds)
        /\ {TextAt(results[g].el, <<"PartnerTrainingNumber">>) : g \in 1..Len(results)}
             = EventIds
        /\ \A g \in 1..Len(results) : results[g].el.tag = "ManagementTrainingRecord"
        /\ \A e \in EventIds :
              TextAt(RecordOf(e), <<"NumberTrained", "Total">>)
                = StrOfNat(IF Len(RowsOf(e)) > 2 THEN Len(RowsOf(e)) ELSE 2)

\* built: a frame of three rows of one event and a row without identifier
\* between rows of two events
GroupingRuleOfBuilder_Witness ==
    /\ FrameBuilt
    /\ Len(rows) = 3
    /\ \/ /\ rows[2][EVENT_ID_COLUMN] = ""
          /\ Len(results) = 2
       \/ /\ \A i \in 1..3 : rows[i][EVENT_ID_COLUMN] = ""
          /\ results = <<>>

\* C17: a training run over a readable file with the event identifier
\* column and rows that carry identifiers writes a document with exactly one
\* ManagementTrainingRecord per distinct non-empty event identifier, the
\* PartnerTrainingNumber values pairwise distinct.
C17_OneRecordPerEventId ==
    (/\ converter = "training"
     /\ readable
     /\ writable
     /\ EVENT_ID_COLUMN \in header
     /\ EventIds # {}
     /\ pc \in {"returned", "raised"})
    => /\ pc = "returned"
       /\ output.written
       /\ Len(output.root) = Cardinality(EventIds)
       /\ {TextAt(output.root[g], <<"PartnerTrainingNumber">>) : g \in 1..Len(output.root)}
            = EventIds

\* the demographic buckets: the element's path under NumberTrained, the
\* column of the frame and the keywords (config.py DEMOGRAPHIC_KEYWORDS)
Buckets ==
    {<<<<"Female">>, "Gender", {"female", "f", "woman", "women"}>>,
     <<<<"Male">>, "Gender", {"male", "m", "man", "men"}>>,
     <<<<"PersonWithDisabilities">>, "Disabilities", {"yes", "true", "1", "y"}>>,
     <<<<"ActiveDuty">>, "Military Status", {"active duty", "active-duty"}>>,
     <<<<"Veterans">>, "Military Status", {"veteran"}>>,
     <<<<"ServiceDisabledVeterans">>, "Military Status", {"service disabled", "disabled vet"}>>,
     <<<<"MemberOfReserveOrNationalGuard">>, "Military Status", {"reserve", "guard"}>>,
     <<<<"SpouseOfMilitaryMember">>, "Military Status", {"spouse"}>>,
     <<<<"Race", "Asian">>, "Race", {"asian"}>>,
     <<<<"Race", "BlackOrAfricanAmerican">>, "Race", {"black", "african american"}>>,
     <<<<"Race", "NativeAmericanOrAlaskaNative">>, "Race",
       {"american indian", "alaska native", "native american"}>>,
     <<<<"Race", "NativeHawaiianOrPacificIslander">>, "Race", {"hawaiian", "pacific islander"}>>,
     <<<<"Race", "White">>, "Race", {"white", "caucasian"}>>,
     <<<<"Race", "MiddleEastern">>, "Race", {"middle east"}>>,
     <<<<"Race", "NorthAfrican">>, "Race", {"north africa"}>>,
     <<<<"Ethnicity", "HispanicOrLatinoOrigin">>, "Ethnicity", {"hispanic", "latino"}>>}

\* the number of rows of a frame whose cell in the column contains a keyword,
\* letter case ignored
RowsWithKeyword(df, column, keywords) ==
    Cardinality({i \in 1..Len(df) : \E k \in keywords : Contains(Lower(df[i][column]), k)})

\* the elements at a path of child tags under an element
RECURSIVE ElementsAt(_, _)
ElementsAt(el, path) ==
    IF path = <<>> THEN <<el>>
    ELSE With(KidsOf(el, path[1]), LAMBDA found :
           IF found = <<>> THEN <<>> ELSE ElementsAt(found[1], Tail(path)))

\* C18: in every training record built for a group, each demographic bucket
\* (female, male, disabilities, the military subtypes, the races, hispanic)
\* has its element under NumberTrained exactly when some row of the group
\* has, in the bucket's column, a cell that contains one of the bucket's
\* keywords in any letter case, and the element's text is the number of such
\* rows.
C18_DemographicCounts ==
    FrameBuilt =>
        \A e \in EventIds : \A b \in Buckets :
            With(RowsWithKeyword(RowsOf(e), b[2], b[3]), LAMBDA count :
            With(ElementsAt(RecordOf(e), <<"NumberTrained">> \o b[1]), LAMBDA found :
              IF count > 0
              THEN Len(found) = 1 /\ found[1].text = StrOfNat(count)
              ELSE found = <<>>))

\* the same, for the groups whose first row has cells that spell the names of
\* their own columns: there the lookup of count_matches finds the column
DemographicCountsWhenCellNamesColumn ==
    FrameBuilt =>
        \A e \in EventIds : \A b \in Buckets :
            RowsOf(e)[1][b[2]] = b[2] =>
                With(RowsWithKeyword(RowsOf(e), b[2], b[3]), LAMBDA count :
                With(ElementsAt(RecordOf(e), <<"NumberTrained">> \o b[1]), LAMBDA found :
                  IF count > 0
                  THEN Len(found) = 1 /\ found[1].text = StrOfNat(count)
                  ELSE found = <<>>))

LocationTriple(record) ==
    <<TextAt(record, <<"TrainingLocation", "City">>),
      TextAt(record, <<"TrainingLocation", "State">>),
      TextAt(record, <<"TrainingLocation", "ZipCode">>)>>

\* the runs of five digits in a text
FiveDigitRuns(text) ==
    {SubSeq(text, i, i + 4) : i \in {j \in 1..(Len(text) - 4) : AllDigits(SubSeq(text, j, j + 4))}}

FormatDateCalls ==
    LET Render(dt, fmt) ==
            With([k \in 1..3 |->
                    CASE Char(fmt, 3 * k - 1) = "Y" -> StrOfNat(dt.y)
                      [] Char(fmt, 3 * k - 1) = "y" -> Pad2(dt.y % 100)
                      [] Char(fmt, 3 * k - 1) = "m" -> Pad2(dt.m)
                      [] Char(fmt, 3 * k - 1) = "d" -> Pad2(dt.d)], LAMBDA part :
              part[1] \o Char(fmt, 3) \o part[2] \o Char(fmt, 3) \o part[3])
        CalendarDates ==
            {dt \in [ok : {TRUE}, y : {1950, 1969, 2023, 2024, 2068}, m : {1, 2, 4, 10, 12},
                     d : {1, 4, 12, 13, 29, 31}] : dt.d <= DaysInMonth(dt.y, dt.m)}
        FormatLists ==
            {<<>>, DATE_INPUT_FORMATS, <<"%m/%d/%Y">>, <<"%d.%m.%Y", "%m/%d/%Y">>,
             <<"%d-%m-%Y", "%m-%d-%Y">>}
        DateTexts ==
            {"", "   ", "nan", "NaN", "invalid-date", "bad", "2023-13-01", "10/32/2023",
             "2023-02-29", "2024-02-29", "2023-1-1", "1/1/2023", " 2023-10-26 ", "2023-10-26",
             "10/26/2023", "10-26-2023", "10/26/23", "2023/10/26", "23/10/26", "26.10.2023",
             "04-03-2023", "26-10-2023", "2023-10-26x", "2023-1-1 09:00", "20231026",
             "10/11/12", "2023-10", "0999-01-01"}
    IN  {[fn |-> "format_date",
          args |-> <<Render(dt, DEFAULT_INPUT_FORMATS[i]), <<>>, "">>,
          about |-> [date |-> dt, fmt |-> DEFAULT_INPUT_FORMATS[i]]] :
            dt \in CalendarDates, i \in 1..Len(DEFAULT_INPUT_FORMATS)}
        \cup {[fn |-> "format_date", args |-> <<t, f, r>>,
               about |-> [date |-> NoDate, fmt |-> ""]] :
                t \in DateTexts, f \in FormatLists, r \in {"", "N/A"}}

\* the calls of truncate_counselor_notes: notes with lines, sentence ends,
\* runs of blanks and bracketed artifacts, and limits below and above their
\* lengths
TruncateCalls ==
    {[fn |-> "truncate_counselor_notes", args |-> <<notes, max_length>>, about |-> ""] :
        notes \in {"", "nan", "abcdefgh", "ab cdefgh", "ab\ncdefgh", "a [U]: b", "hi [U]:",
                   "[[U]:x]: y", "Hello world. Bye now", "a. b! c? d", "  a   b  ", "x\n\ny",
                   "one two\nthree four", ".abc def", "Met client. [U]: ok"},
        max_length \in {0, 1, 3, 5, 8, 12, 100}}

\* the calls of map_value, two at a time: a value and a variant of it in
\* letter case (or the value again), with a table (the one of the unit
\* tests, a configured one, one whose keys differ in case only, an empty
\* one), a default and case_sensitive.  Absent stands for None.
MapValueCalls ==
    LET Values == {"apple", "Apple", "APPLE", " apple ", " Apple", "grape", "GRAPE", "",
                   "  ", Absent, "123", "webinar", "Webinar", "a", "A", "nan", "fruit"}
        Tables == {<<<<"apple", "FRUIT">>, <<"banana", "FRUIT">>, <<"carrot", "VEGETABLE">>,
                     <<"123", "NUMBER">>>>,
                   PROGRAM_FORMAT_MAPPINGS,
                   <<<<"a", "lower">>, <<"A", "upper">>>>,
                   <<>>}
        Pairs == {vw \in Values \X Values : Lower(vw[1]) = Lower(vw[2])}
    IN  {[fn |-> "map_value", args |-> <<vw, t, d, cs>>, about |-> ""] :
            vw \in Pairs, t \in Tables, d \in {"UNKNOWN", ""}, cs \in BOOLEAN}

\* the calls of standardize_state_name, two at a time: a value and a variant
\* of it in letter case (or the value again), with no allow-list or an
\* allow-list of canonical names, and a default
StateNameCalls ==
    LET Values == {"AL", "al", " Al ", "Alabama", "alabama", "ALABAMA", "IA", "ia", "Iowa",
                   "iOwA", "CA", "ca", "California", "CALIFORNIA", "FL", "fl", "NY",
                   "XX", "xx", "XYZ", "UnknownState", "Not A State", " XYZ ", "d.c.", "DC",
                   "Armed Forces Europe", "armed forces europe", "", "   ", "nan"}
        Lists == {NoList,
                  [given |-> TRUE, list |-> {"California", "New York", "Texas"}],
                  [given |-> TRUE, list |-> {"California"}],
                  [given |-> TRUE, list |-> {}]}
        Pairs == {vw \in Values \X Values : Lower(vw[1]) = Lower(vw[2])}
    IN  {[fn |-> "standardize_state_name", args |-> <<vw, l, d>>, about |-> ""] :
            vw \in Pairs, l \in Lists, d \in {"", "UNKNOWN_STATE"}}

\* one call of a cleaning function is about to be made
InitClean ==
    /\ converter = "cleaning"
    /\ readable = TRUE
    /\ writable = TRUE
    /\ header = {}
    /\ \E c \in FormatDateCalls \cup TruncateCalls \cup MapValueCalls
                 \cup StateNameCalls : rows = <<c>>
    /\ pc = "rows"
    /\ row_index = 1
    /\ valid_rows = <<>>
    /\ root = <<>>
    /\ validator = NewTracker
    /\ processed_records = 0
    /\ skipped_records = 0
    /\ output = NoFile
    /\ exc = ""
    /\ Idle

\* format_date(date_str, input_formats, default_return) on the call's arguments
FormatDate ==
    /\ converter = "cleaning"
    /\ rows[1].fn = "format_date"
    /\ row_index = 1
    /\ results' = <<format_date(rows[1].args[1], rows[1].args[2], rows[1].args[3])>>
    /\ row_index' = 2
    /\ UNCHANGED <<converter, readable, writable, header, rows, pc, valid_rows, root,
                   validator, processed_records, skipped_records, output, exc, before, runs>>

\* truncate_counselor_notes(notes, max_length) on the call's notes, and then
\* once more on what it returned, with the same limit
TruncateNotes ==
    /\ converter = "cleaning"
    /\ rows[1].fn = "truncate_counselor_notes"
    /\ row_index <= 2
    /\ results' = Append(results,
                         truncate_counselor_notes(
                           IF results = <<>> THEN rows[1].args[1] ELSE results[Len(results)],
                           rows[1].args[2]))
    /\ row_index' = row_index + 1
    /\ UNCHANGED <<converter, readable, writable, header, rows, pc, valid_rows, root,
                   validator, processed_records, skipped_records, output, exc, before, runs>>

\* map_value(value, mapping_dict, default_value, case_sensitive) on the next
\* of the call's two values
MapValue ==
    /\ converter = "cleaning"
    /\ rows[1].fn = "map_value"
    /\ row_index <= 2
    /\ results' = Append(results,
                         map_value(rows[1].args[1][row_index], rows[1].args[2],
                                   rows[1].args[3], rows[1].args[4]))
    /\ row_index' = row_index + 1
    /\ UNCHANGED <<converter, readable, writable, header, rows, pc, valid_rows, root,
                   validator, processed_records, skipped_records, output, exc, before, runs>>

\* standardize_state_name(state_value, valid_states_list, default_return) on
\* the next of the call's two values
StandardizeStateName ==
    /\ converter = "cleaning"
    /\ rows[1].fn = "standardize_state_name"
    /\ row_index <= 2
    /\ results' = Append(results,
                         standardize_state_name(rows[1].args[1][row_index], rows[1].args[2],
                                                rows[1].args[3]))
    /\ row_index' = row_index + 1
    /\ UNCHANGED <<converter, readable, writable, header, rows, pc, valid_rows, root,
                   validator, processed_records, skipped_records, output, exc, before, runs>>

NextClean == FormatDate \/ TruncateNotes \/ MapValue \/ StandardizeStateName

SpecClean == InitClean /\ [][NextClean]_vars

\* ------------------------------------------------------------------------
\* Properties of the cleaning functions (SpecClean)
\* ------------------------------------------------------------------------

\* the call of a function has returned
Returned(fn) ==
    converter = "cleaning" /\ rows[1].fn = fn /\ Len(results) >= 1

\* the formats a call of format_date tries: the default list for None
FormatsTried(call) ==
    IF call.args[2] = <<>> THEN DEFAULT_INPUT_FORMATS ELSE call.args[2]

\* the positions of the formats tried under which the trimmed text parses
ParsingFormats(call) ==
    {i \in 1..Len(FormatsTried(call)) : strptime(Strip(call.args[1]), FormatsTried(call)[i]).ok}

\* the text is a year of four digits, a month and a day of one or two
\* digits, with dashes, and a date of the calendar
IsDashedYmd(text) == MatchesYmdPrefix(text) /\ strptime(text, "%Y-%m-%d").ok

\* C21 (as the code has it): format_date returns the ISO form of the parse
\* under the earliest format of the list that parses the trimmed text; a
\* blank text returns the default; a text no format of the list parses
\* returns the default, except a dashed year-month-day date, which is
\* returned in ISO form even though the list has no format for it.
C21_FirstFormatWinsWithDashedFallback ==
    Returned("format_date") =>
        With(rows[1], LAMBDA call :
        With(Strip(call.args[1]), LAMBDA text :
        With(ParsingFormats(call), LAMBDA parsing :
          IF IsBlank(call.args[1]) THEN results[1] = call.args[3]
          ELSE IF parsing # {}
          THEN results[1] = strftime(strptime(text,
                   FormatsTried(call)[CHOOSE i \in parsing : \A j \in parsing : i <= j]))
          ELSE IF IsDashedYmd(text)
          THEN results[1] = strftime(strptime(text, "%Y-%m-%d"))
          ELSE results[1] = call.args[3])))

\* returned: a day-month collision read month first under the default list
\* and day first under the training list
C21_Witness ==
    /\ Returned("format_date")
    /\ rows[1].args[1] = "04-03-2023"
    /\ \/ rows[1].args[2] = <<>> /\ results[1] = "2023-04-03"
       \/ rows[1].args[2] = DATE_INPUT_FORMATS /\ results[1] = "2023-03-04"

\* C21: format_date returns the ISO form of the parse under the earliest
\* format of the list that parses the text, and a text that no format of the
\* list parses returns exactly default_return.
C21_FirstFormatWinsElseDefault ==
    Returned("format_date") =>
        With(rows[1], LAMBDA call :
        With(Strip(call.args[1]), LAMBDA text :
        With(ParsingFormats(call), LAMBDA parsing :
          IF IsBlank(call.args[1]) THEN results[1] = call.args[3]
          ELSE IF parsing # {}
          THEN results[1] = strftime(strptime(text,
                   FormatsTried(call)[CHOOSE i \in parsing : \A j \in parsing : i <= j]))
          ELSE results[1] = call.args[3])))

\* the ISO form YYYY-MM-DD of a date with a year of four digits
IsoForm(dt) ==
    StrOfNat(dt.y) \o "-" \o (IF dt.m < 10 THEN "0" ELSE "") \o StrOfNat(dt.m)
                   \o "-" \o (IF dt.d < 10 THEN "0" ELSE "") \o StrOfNat(dt.d)

\* a call of format_date on a calendar date rendered in a default format has
\* returned
RenderedDateReturned == Returned("format_date") /\ rows[1].about.date.ok

\* the rendering of the call reads as another date under a format that is
\* earlier in the default list than the one it was rendered in
ShadowedByEarlierFormat(call) ==
    \E i, j \in 1..Len(DEFAULT_INPUT_FORMATS) :
        /\ DEFAULT_INPUT_FORMATS[i] = call.about.fmt
        /\ j < i
        /\ strptime(call.args[1], DEFAULT_INPUT_FORMATS[j]).ok
        /\ strptime(call.args[1], DEFAULT_INPUT_FORMATS[j]) # call.about.date

\* the format has a year of two digits
HasShortYear(fmt) == \E k \in 1..3 : Char(fmt, 3 * k - 1) = "y"

\* C22 (as the code has it): format_date applied to a calendar date rendered
\* in a format of the default list returns the ISO form of the date,
\* provided no earlier format of the list reads the rendering as another date
\* and, for a format with a two-digit year, the year is from 1969 to 2068.
C22_RoundTripUnlessShadowed ==
    RenderedDateReturned =>
        With(rows[1], LAMBDA call :
          (/\ ~ShadowedByEarlierFormat(call)
           /\ HasShortYear(call.about.fmt) => call.about.date.y \in 1969..2068)
          => results[1] = IsoForm(call.about.date))

\* returned: the 13th of a month rendered day first, which no earlier format
\* reads, and a date rendered with a two-digit year
C22_Witness ==
    /\ RenderedDateReturned
    /\ rows[1].about.fmt = "%d-%m-%Y"
    /\ rows[1].about.date.d = 13
    /\ rows[1].about.date.m = 4
    /\ results[1] = IsoForm(rows[1].about.date)

\* C22: format_date applied to any calendar date rendered in any format of
\* the default list returns the ISO form of the date.
C22_DateRoundTrip ==
    RenderedDateReturned => results[1] = IsoForm(rows[1].about.date)

\* the formats whose renderings are never read by an earlier format: for
\* these the round trip depends on the year only
NeverShadowedFormats ==
    RenderedDateReturned =>
        (rows[1].about.fmt \in {"%Y-%m-%d", "%m/%d/%Y", "%m-%d-%Y", "%m/%d/%y", "%Y/%m/%d",
                                "%m-%d-%y"}
         => ~ShadowedByEarlierFormat(rows[1]))

\* C23: truncate_counselor_notes is idempotent: applied to what it returned,
\* with the same limit, it returns the same text.
C23_TruncateIdempotent ==
    (Returned("truncate_counselor_notes") /\ Len(results) = 2) => results[2] = results[1]

\* what truncate_counselor_notes returns is never longer than the limit
TruncatedWithinLimit ==
    Returned("truncate_counselor_notes") =>
        \A k \in 1..Len(results) : Len(results[k]) <= rows[1].args[2]

\* the values of a mapping table
TableValues(table) == {table[i][2] : i \in 1..Len(table)}

\* the keys of a mapping table in lower case
LowerKeys(table) == {Lower(table[i][1]) : i \in 1..Len(table)}

\* C24: map_value without case_sensitive returns the same for a value and
\* for any variant of it in letter case; it returns exactly the default for
\* None, for a blank value and for a value that matches no key; and what it
\* returns is always the default or a value of the table.
C24_MapValueCaseInsensitiveAndTotal ==
    (Returned("map_value") /\ ~rows[1].args[4]) =>
        With(rows[1].args, LAMBDA a :
          /\ Len(results) = 2 => results[1] = results[2]
          /\ \A k \in 1..Len(results) :
                /\ results[k] \in TableValues(a[2]) \cup {a[3]}
                /\ (a[1][k] = Absent \/ Strip(a[1][k]) = ""
                    \/ Lower(Strip(a[1][k])) \notin LowerKeys(a[2]))
                   => results[k] = a[3]
                /\ (a[1][k] # Absent /\ Lower(Strip(a[1][k])) \in LowerKeys(a[2]))
                   => results[k] \in TableValues(a[2]))

\* returned: a key and a variant of it in capitals, both mapped to the same
\* value of the table
C24_Witness ==
    /\ Returned("map_value")
    /\ ~rows[1].args[4]
    /\ rows[1].args[1] = <<"apple", "APPLE">>
    /\ results = <<"FRUIT", "FRUIT">>

\* the canonical names a text stands for: the name of the two-letter code it
\* spells, or the state name it spells, in any letter case, blanks around
\* it ignored
CanonicalNames(text) ==
    {DEFAULT_STATE_MAPPINGS[i][2] : i \in {j \in 1..Len(DEFAULT_STATE_MAPPINGS) :
        \/ DEFAULT_STATE_MAPPINGS[j][1] = Upper(Strip(text))
        \/ Lower(DEFAULT_STATE_MAPPINGS[j][2]) = Lower(Strip(text))}}
    \cup {n \in DEFAULT_VALID_STATES : Lower(n) = Lower(Strip(text))}

C26_DefaultForUnknownState ==
    (Returned("standardize_state_name") /\ ~rows[1].args[2].given) =>
        \A k \in 1..Len(results) :
            CanonicalNames(rows[1].args[1][k]) = {} => results[k] = rows[1].args[3]

\* ------------------------------------------------------------------------
\* Properties of the row loop of CounselingConverter.convert
\* ------------------------------------------------------------------------

\* the CounselingRecord children of a root
CounselingRecords(children) == SelectSeq(children, LAMBDA k : k.tag = "CounselingRecord")

WrittenRecordsAreSuccessful ==
    (converter = "counseling" /\ pc = "returned") =>
        Len(CounselingRecords(output.root)) = validator.successful_records

\* C28: when a counseling run over a readable file of N rows has ended, every
\* row is skipped by the validator, succeeded or failed: skipped_records
\* plus the tracker's total_records is N, total_records counts the succeeded
\* and the failed rows only, and successful_records never exceeds it.
C28_RowAccounting ==
    (converter = "counseling" /\ readable /\ pc \in {"returned", "raised"}) =>
        /\ skipped_records + validator.total_records = Len(rows)
        /\ processed_records = validator.successful_records
        /\ validator.successful_records <= validator.total_records

\* the accounting of the rows the loop has gone through, after every step of
\* a counseling run and of the try statement on accepted rows
RowAccountingOfLoop ==
    converter \in {"counseling", "builder"} =>
        /\ skipped_records + validator.total_records = row_index - 1
        /\ processed_records = validator.successful_records
        /\ validator.successful_records <= validator.total_records
        /\ converter = "builder" => skipped_records = 0

\* ------------------------------------------------------------------------
\* The frame of the fixer (SpecFix)
\* ------------------------------------------------------------------------

\* how many times an element is among the children
Copies(kids, e) == Cardinality({i \in 1..Len(kids) : kids[i] = e})

\* a and b hold the same children, each as many times: tag, text and subtree
\* of every child as they were
SameBag(a, b) ==
    /\ Len(a) = Len(b)
    /\ \A i \in 1..Len(a) : Copies(a, a[i]) = Copies(b, a[i])

\* the last run left everything as it was but the children of the first
\* ClientIntake of each CounselingRecord under the root
OnlyIntakeChildrenTouched ==
    /\ Len(output.root) = Len(before.root)
    /\ \A r \in 1..Len(before.root) :
          With(before.root[r], LAMBDA was :
          With(output.root[r], LAMBDA is :
          With(FirstIntake(was), LAMBDA at :
            IF was.tag # "CounselingRecord" \/ at = 0 THEN is = was
            ELSE /\ is.tag = was.tag
                 /\ is.text = was.text
                 /\ Len(is.kids) = Len(was.kids)
                 /\ \A k \in 1..Len(was.kids) :
                       IF k = at
                       THEN is.kids[k].tag = was.kids[k].tag /\ is.kids[k].text = was.kids[k].text
                       ELSE is.kids[k] = was.kids[k])))

\* C29: the fixer's reorder is purely structural.  A run without
\* --add-missing leaves each ClientIntake it goes over with the same children,
\* each as many times and each with its text and subtree, repeated tags
\* included; and any run changes nothing outside the children of the
\* ClientIntake of the CounselingRecord elements directly under the root.
C29_ReorderIsStructural ==
    runs # <<>> =>
        /\ OnlyIntakeChildrenTouched
        /\ ReorderedOnly => \A p \in FixedPairs : SameBag(p[1], p[2])
        /\ AddedMissing =>
              \A p \in FixedPairs :
                  \A i \in 1..Len(p[1]) : Copies(p[2], p[1][i]) = Copies(p[1], p[1][i])

\* a run without --add-missing moved a listed child ahead of two children of
\* one unlisted tag
C29_Witness ==
    /\ runs = <<FALSE>>
    /\ \E p \in FixedPairs : Tags(p[1]) = <<"X", "Sex", "X">> /\ Tags(p[2]) = <<"Sex", "X", "X">>

\* ------------------------------------------------------------------------
\* The gender buckets of the training demographics (SpecBuild)
\* ------------------------------------------------------------------------

\* the count a built record shows for a bucket of NumberTrained: 0 without
\* the element
ShownCount(record, tag) ==
    With(ElementsAt(record, <<"NumberTrained", tag>>), LAMBDA found :
      IF found = <<>> THEN 0 ELSE NatOf(found[1].text))

\* C30: in every training record built for a group, no row is counted as
\* female and as male: the Female and the Male count together never exceed
\* the number of rows of the group.
C30_FemaleAndMaleDisjoint ==
    FrameBuilt =>
        \A e \in EventIds :
            ShownCount(RecordOf(e), "Female") + ShownCount(RecordOf(e), "Male")
                <= Len(RowsOf(e))

====
